---- MODULE Spec2Model ----
(***************************************************************************)
(* A model of the resource-lifetime core of the renderer:                  *)
(*   - DescriptorAllocatorGrowable (src/src/vulkan_rs/descriptor.rs) on    *)
(*     top of the Device wrappers (src/src/vulkan_rs/device.rs);           *)
(*   - the frame loop VulkanRenderer::draw (src/src/vulkan_renderer.rs)    *)
(*     running against an asynchronous GPU queue.                          *)
(*   - the blocking uploads AllocatedImage::new_texture and                *)
(*     GPUMeshBuffers::upload_mesh (allocation.rs, mesh.rs) through        *)
(*     ImmediateCommandData::immediate_submit (immediate_submit.rs).       *)
(* Spec is the allocator driven by arbitrary call sequences, ScenarioSpec  *)
(* the allocator configured as a frame configures it, FrameSpec the frame  *)
(* loop and UploadSpec the uploads.  TeardownSpec drops the renderer's     *)
(* fields, ThreadSpec runs uploads of several threads on one Allocator,    *)
(* CopySpec is AllocatedBuffer::copy_from_slice, and MipSpec, PackSpec and *)
(* CheckerboardSpec are the texture arithmetic of allocate_texture,        *)
(* pack_unorm4x8 and init_default_textures.  FrameLiveSpec is FrameSpec    *)
(* under fair scheduling, RecordSpec the command stream draw() records,    *)
(* FixedSpec the single-pool DescriptorAllocator, ShutdownSpec the frame   *)
(* loop ended by the drop of the renderer, and AppSpec the frame loop      *)
(* driven by GameEngine::window_event (src/src/main.rs).                   *)
(***************************************************************************)
EXTENDS Integers, Sequences, FiniteSets, TLC

\* ------------------------------------------------------------------ bounds
\* Descriptor pool handles the driver can hand out in one run.
MaxPools == 3
\* Descriptor sets one pool serves between two resets before the caller stops.
MaxUsed == 2
\* Small initial max_sets values 1..SmallMaxSets (pool exhaustion by count).
SmallMaxSets == 2
\* draw() calls in one run of the frame loop.
MaxFrames == 4
\* new_texture / upload_mesh calls in one run.
MaxUploads == 2
\* Threads that build and drop images and buffers on one shared Allocator.
NumThreads == 2
\* Bytes of memory behind an AllocatedBuffer.
MaxBufferSize == 4
\* Texture widths 1..MaxSmallExtent are all tried (larger ones are picked).
MaxSmallExtent == 16
\* resize_swapchain() calls in one run of the frame loop.
MaxResizes == 1
\* Images of the swapchain (min_image_count + 1 of the surface).
SwapchainImages == 3

\* ------------------------------------------------------- program constants
\* u32::min(self.sets_per_pool, 4092) in get_pool.
SetsPerPoolCap == 4092
MAX_FRAMES_IN_FLIGHT == 2
\* DescriptorAllocatorGrowable::new(device, .., 1000) in FrameData::new.
FRAME_MAX_SETS == 1000

\* ------------------------------------------------------------------- state
VARIABLES
    \* DescriptorAllocatorGrowable fields
    ready_pools, full_pools, sets_per_pool,
    \* the device's descriptor pool objects, by handle
    pools,
    \* TRUE once a panic!/expect has fired: the thread is unwinding
    panicked,
    \* TRUE once the allocator value has been dropped
    dropped,
    \* what the most recent allocator call did (observation only)
    call,
    \* VulkanRenderer: frame_index, resize_swapchain (Option), the swapchain
    \* (generation, extent, images)
    frame_index, resize_swapchain, swapchain_epoch, swapchain_extent, images,
    \* draw(): the step it is about to take, the steps taken so far by the
    \* current (or last) call, its locals
    pc, steps, logical_size, presentation_image_index,
    \* FrameData, by slot
    in_flight_fence, command_buffer, frame_descriptors,
    image_available_semaphore, result_presentable_semaphore,
    \* the descriptor sets allocated and not yet returned to their pool
    live_sets,
    \* the graphics queue and the presentation engine's queue
    queue, present_queue,
    \* an upload call (new_texture, upload_mesh): the function, the
    \* statements left and executed, the calls made so far, its objects
    upload_fn, upload_pc, upload_steps, uploads, objects,
    \* ImmediateCommandData and its submissions on the graphics queue
    immediate_fence, immediate_command_buffer, immediate_queue,
    \* the statements left of the Drop::drop under way, the Mutex around the
    \* Allocator, TRUE once a panic during unwinding has aborted the process
    drop_pc, allocator_mutex, aborted,
    \* teardown: the renderer fields not yet dropped, the drop statements
    \* pending, the live objects of each type, the strong counts of
    \* Arc<Device> and Arc<Mutex<Allocator>>, the logical device
    renderer_fields, teardown_pc, live, device_strong, allocator_strong,
    device_handle,
    \* threads sharing the Allocator: the statements each has left, whether
    \* it has panicked, its ImmediateCommandData fence, whether its
    \* submission is on the GPU
    thread_pc, thread_state, thread_fence, thread_pending,
    \* an AllocatedBuffer with the bytes of its mapped memory, and what the
    \* most recent copy_from_slice call on it did
    buffer, copy_call,
    \* what the most recent allocate_texture and pack_unorm4x8 calls did
    texture_call, pack_call,
    \* init_default_textures: the checkerboard array and the loop counters
    checkerboard, loop_i, loop_j,
    \* the commands recorded by the current draw() and the layout each image
    \* is left in by the commands recorded so far
    recorded, image_layout,
    \* DescriptorAllocator: its pool field (Option)
    pool,
    \* GameEngine::window_event: the event handled last
    window_event

standaloneVars == <<ready_pools, full_pools, sets_per_pool, call, dropped>>
allocVars == <<ready_pools, full_pools, sets_per_pool, pools, call, dropped>>
frameVars == <<frame_index, resize_swapchain, swapchain_epoch, swapchain_extent,
               images, pc, steps, logical_size, presentation_image_index,
               in_flight_fence, command_buffer, frame_descriptors,
               image_available_semaphore, result_presentable_semaphore,
               live_sets, queue, present_queue>>
vars == <<ready_pools, full_pools, sets_per_pool, pools, panicked, dropped, call,
          frame_index, resize_swapchain, swapchain_epoch, swapchain_extent,
          images, pc, steps, logical_size, presentation_image_index,
          in_flight_fence, command_buffer, frame_descriptors,
          image_available_semaphore, result_presentable_semaphore,
          live_sets, queue, present_queue,
          upload_fn, upload_pc, upload_steps, uploads, objects,
          immediate_fence, immediate_command_buffer, immediate_queue,
          drop_pc, allocator_mutex, aborted,
          renderer_fields, teardown_pc, live, device_strong, allocator_strong,
          device_handle,
          thread_pc, thread_state, thread_fence, thread_pending,
          buffer, copy_call, texture_call, pack_call,
          checkerboard, loop_i, loop_j,
          recorded, image_layout, pool, window_event>>
dropVars == <<drop_pc, allocator_mutex, aborted>>
teardownVars == <<renderer_fields, teardown_pc, live, device_strong,
                  allocator_strong, device_handle>>
\* The state no action of the allocator, the frame loop or the uploads
\* touches.
threadVars == <<thread_pc, thread_state, thread_fence, thread_pending>>
copyVars == <<buffer, copy_call>>
textureVars == <<texture_call, pack_call, checkerboard, loop_i, loop_j>>
commandVars == <<recorded, image_layout>>
moreVars == <<commandVars, pool, window_event>>
restVars == <<teardownVars, threadVars, copyVars, textureVars, moreVars>>
uploadVars == <<upload_fn, upload_pc, upload_steps, uploads, objects,
                immediate_fence, immediate_command_buffer, immediate_queue,
                dropVars, restVars>>

\* ----------------------------------------------------------------- helpers
PoolIds == 1..MaxPools
\* No descriptor set returned (the call panicked, or returns none).
NoSet == {}

Last(s) == s[Len(s)]
Front(s) == SubSeq(s, 1, Len(s) - 1)
Range(s) == {s[i] : i \in 1..Len(s)}
Occurrences(s, x) == Cardinality({i \in 1..Len(s) : s[i] = x})
MinOf(x, y) == IF x <= y THEN x ELSE y

\* vk::Result values a descriptor-set allocation can end with.
PoolExhaustion == {"ERROR_OUT_OF_POOL_MEMORY", "ERROR_FRAGMENTED_POOL"}
VkResults == {"SUCCESS", "ERROR_OUT_OF_HOST_MEMORY"} \cup PoolExhaustion

\* new(device, ratios, max_sets): the max_sets values explored.
MaxSetsInputs == (1..SmallMaxSets) \cup {1000, 3000, 5000}

\* --------------------------------------------------------- device wrappers
\* A descriptor pool object of the driver.  state: "null" (handle not handed
\* out yet), "live", "destroyed".  used: sets allocated since the last reset.
\* resets: vkResetDescriptorPool calls on it during the current allocator
\* call.  destroys: vkDestroyDescriptorPool calls on it so far.
NullPool == [state |-> "null", max_sets |-> 0, used |-> 0, resets |-> 0, destroys |-> 0]

FreeHandles(d) == {p \in PoolIds : d[p].state = "null"}
LivePools(d) == {p \in PoolIds : d[p].state = "live"}

\* Start of an allocator call: the per-call reset counters start at zero.
BeginCall(d) == [p \in PoolIds |-> [d[p] EXCEPT !.resets = 0]]

\* Device::create_descriptor_pool: a fresh handle, live, with max_sets sets.
create_descriptor_pool(d, max_sets) ==
    LET p == CHOOSE q \in FreeHandles(d) : \A o \in FreeHandles(d) : q <= o
    IN  [d |-> [d EXCEPT ![p] = [state |-> "live", max_sets |-> max_sets,
                                 used |-> 0, resets |-> 0, destroys |-> 0]],
         pool |-> p]

\* Device::reset_descriptor_pool: every set of the pool is returned to it.
reset_descriptor_pool(d, p) ==
    [d EXCEPT ![p].used = 0, ![p].resets = @ + 1]

\* Device::destroy_descriptor_pool: the pool and its sets are gone.
destroy_descriptor_pool(d, p) ==
    [d EXCEPT ![p].state = "destroyed", ![p].max_sets = 0, ![p].used = 0,
              ![p].destroys = @ + 1]

\* What vkAllocateDescriptorSets answers for one set from pool p when the
\* driver is disposed to answer r: a pool that has served max_sets sets
\* cannot serve another one, whatever the disposition.
vkAllocateDescriptorSets(d, p, r) ==
    IF r = "SUCCESS" /\ d[p].used >= d[p].max_sets
    THEN "ERROR_OUT_OF_POOL_MEMORY"
    ELSE r

\* Device::allocate_descriptor_sets: the driver call followed by
\* .expect(..), so every answer other than SUCCESS panics inside the wrapper
\* and the caller only ever sees the sets.
allocate_descriptor_sets(d, p, r) ==
    LET res == vkAllocateDescriptorSets(d, p, r)
    IN  [d      |-> IF res = "SUCCESS" THEN [d EXCEPT ![p].used = @ + 1] ELSE d,
         result |-> res,
         panic  |-> res # "SUCCESS"]

\* ---------------------------------------------- DescriptorAllocatorGrowable
\* An allocator value: [ready_pools, full_pools, sets_per_pool].

\* Variant of Grow: the product rounded to the nearest integer (.round()
\* before the cast).
Grow_rounded(n) == (n * 3 + 1) \div 2

\* (self.sets_per_pool as f32 * 1.5) as u32: the cast truncates toward zero.
\* The f32 product is exact for every value below 2^22, which covers the
\* values explored here.
Grow(n) == (n * 3) \div 2

\* DescriptorAllocatorGrowable::new.
new(max_sets) ==
    [ready_pools |-> <<>>, full_pools |-> <<>>, sets_per_pool |-> max_sets]

\* create_new_pool: one pool of set_count sets.
create_new_pool(d, set_count) == create_descriptor_pool(d, set_count)

\* init_pool: create a pool of sets_per_pool sets, push it on ready_pools,
\* grow the target (no cap here).
init_pool(a, d) ==
    LET c == create_new_pool(d, a.sets_per_pool)
    IN  [a |-> [a EXCEPT !.ready_pools = Append(@, c.pool),
                         !.sets_per_pool = Grow(@)],
         d |-> c.d,
         growth |-> <<[site |-> "init_pool", old |-> a.sets_per_pool,
                       new |-> Grow(a.sets_per_pool)]>>]

RECURSIVE ResetEach(_, _)
ResetEach(d, s) ==
    IF s = <<>> THEN d ELSE ResetEach(reset_descriptor_pool(d, Head(s)), Tail(s))

RECURSIVE DestroyEach(_, _)
DestroyEach(d, s) ==
    IF s = <<>> THEN d ELSE DestroyEach(destroy_descriptor_pool(d, Head(s)), Tail(s))

\* Variant of clear_pools: ready_pools is replaced by full_pools instead of
\* being extended by it.
clear_pools_replace(a, d) ==
    [a |-> [a EXCEPT !.ready_pools = a.full_pools, !.full_pools = <<>>],
     d |-> ResetEach(d, a.full_pools)]

\* Variant of clear_pools: only the pools that were full are reset.
clear_pools_reset_full_only(a, d) ==
    [a |-> [a EXCEPT !.ready_pools = a.ready_pools \o a.full_pools,
                     !.full_pools = <<>>],
     d |-> ResetEach(d, a.full_pools)]

\* clear_pools: move every full pool to the end of ready_pools, then reset
\* each pool of ready_pools.
clear_pools(a, d) ==
    LET ready == a.ready_pools \o a.full_pools
    IN  [a |-> [a EXCEPT !.ready_pools = ready, !.full_pools = <<>>],
         d |-> ResetEach(d, ready)]

\* Variant of destroy_pools: the two lists are not cleared afterwards.
destroy_pools_keep_lists(a, d) ==
    [a |-> a,
     d |-> DestroyEach(DestroyEach(d, a.ready_pools), a.full_pools)]

\* destroy_pools: destroy every pool of both lists, then clear both lists.
destroy_pools(a, d) ==
    [a |-> [a EXCEPT !.ready_pools = <<>>, !.full_pools = <<>>],
     d |-> DestroyEach(DestroyEach(d, a.ready_pools), a.full_pools)]

\* Variant of get_pool: the last ready pool is read (last()) but not popped.
get_pool_peek(a, d) ==
    IF a.ready_pools = <<>>
    THEN LET c == create_new_pool(d, a.sets_per_pool)
             grown == MinOf(Grow(a.sets_per_pool), SetsPerPoolCap)
         IN  [a |-> [a EXCEPT !.sets_per_pool = grown],
              d |-> c.d,
              pool |-> c.pool,
              growth |-> <<[site |-> "get_pool", old |-> a.sets_per_pool,
                            new |-> grown]>>]
    ELSE [a |-> a,
          d |-> d,
          pool |-> Last(a.ready_pools),
          growth |-> <<>>]

\* get_pool: with no ready pool, create one of sets_per_pool sets and grow
\* the target, capped at 4092; otherwise pop the last ready pool.
get_pool(a, d) ==
    IF a.ready_pools = <<>>
    THEN LET c == create_new_pool(d, a.sets_per_pool)
             grown == MinOf(Grow(a.sets_per_pool), SetsPerPoolCap)
         IN  [a |-> [a EXCEPT !.sets_per_pool = grown],
              d |-> c.d,
              pool |-> c.pool,
              growth |-> <<[site |-> "get_pool", old |-> a.sets_per_pool,
                            new |-> grown]>>]
    ELSE [a |-> [a EXCEPT !.ready_pools = Front(@)],
          d |-> d,
          pool |-> Last(a.ready_pools),
          growth |-> <<>>]

\* Variant of allocate: the driver's answer reaches the match, and every
\* error of the first attempt (Err(_)) takes the retry arm.
allocate_retry_any(a, d, r1, r2) ==
    LET g1 == get_pool(a, d)
        res1 == vkAllocateDescriptorSets(g1.d, g1.pool, r1)
    IN  IF res1 = "SUCCESS"
        THEN [a |-> [g1.a EXCEPT !.ready_pools = Append(@, g1.pool)],
              d |-> [g1.d EXCEPT ![g1.pool].used = @ + 1],
              panic |-> FALSE, set |-> {g1.pool},
              tried |-> <<g1.pool>>, results |-> <<res1>>,
              growth |-> g1.growth]
        ELSE LET a1 == [g1.a EXCEPT !.full_pools = Append(@, g1.pool)]
                 g2 == get_pool(a1, g1.d)
                 res2 == vkAllocateDescriptorSets(g2.d, g2.pool, r2)
             IN  IF res2 # "SUCCESS"
                 THEN [a |-> g2.a, d |-> g2.d, panic |-> TRUE, set |-> NoSet,
                       tried |-> <<g1.pool, g2.pool>>,
                       results |-> <<res1, res2>>,
                       growth |-> g1.growth \o g2.growth]
                 ELSE [a |-> [g2.a EXCEPT !.ready_pools = Append(@, g2.pool)],
                       d |-> [g2.d EXCEPT ![g2.pool].used = @ + 1],
                       panic |-> FALSE, set |-> {g2.pool},
                       tried |-> <<g1.pool, g2.pool>>,
                       results |-> <<res1, res2>>,
                       growth |-> g1.growth \o g2.growth]

\* allocate(layout), with r1 and r2 the driver's dispositions for the first
\* and the second allocation attempt.  The result names the allocator and
\* device afterwards, whether the call panicked, the pool the returned set
\* comes from (as a set of at most one pool), the pools tried with the
\* driver's answers, and the growth steps taken.
allocate(a, d, r1, r2) ==
    LET g1 == get_pool(a, d)
        t1 == allocate_descriptor_sets(g1.d, g1.pool, r1)
    IN  IF t1.panic
        THEN \* .expect(..) inside Device::allocate_descriptor_sets
             [a |-> g1.a, d |-> t1.d, panic |-> TRUE, set |-> NoSet,
              tried |-> <<g1.pool>>, results |-> <<t1.result>>,
              growth |-> g1.growth]
        ELSE IF t1.result = "SUCCESS"
        THEN \* Ok(sets)
             [a |-> [g1.a EXCEPT !.ready_pools = Append(@, g1.pool)],
              d |-> t1.d, panic |-> FALSE, set |-> {g1.pool},
              tried |-> <<g1.pool>>, results |-> <<t1.result>>,
              growth |-> g1.growth]
        ELSE IF t1.result \in PoolExhaustion
        THEN \* Err(ERROR_OUT_OF_POOL_MEMORY) | Err(ERROR_FRAGMENTED_POOL)
             LET a1 == [g1.a EXCEPT !.full_pools = Append(@, g1.pool)]
                 g2 == get_pool(a1, t1.d)
                 t2 == allocate_descriptor_sets(g2.d, g2.pool, r2)
             IN  IF t2.panic \/ t2.result # "SUCCESS"
                 THEN [a |-> g2.a, d |-> t2.d, panic |-> TRUE, set |-> NoSet,
                       tried |-> <<g1.pool, g2.pool>>,
                       results |-> <<t1.result, t2.result>>,
                       growth |-> g1.growth \o g2.growth]
                 ELSE [a |-> [g2.a EXCEPT !.ready_pools = Append(@, g2.pool)],
                       d |-> t2.d, panic |-> FALSE, set |-> {g2.pool},
                       tried |-> <<g1.pool, g2.pool>>,
                       results |-> <<t1.result, t2.result>>,
                       growth |-> g1.growth \o g2.growth]
        ELSE \* _ => panic!
             [a |-> g1.a, d |-> t1.d, panic |-> TRUE, set |-> NoSet,
              tried |-> <<g1.pool>>, results |-> <<t1.result>>,
              growth |-> g1.growth]

\* ------------------------------------------------ allocator call sequences
\* The allocator value held in the variables.
Self == [ready_pools |-> ready_pools, full_pools |-> full_pools,
         sets_per_pool |-> sets_per_pool]

Store(a) ==
    /\ ready_pools' = a.ready_pools
    /\ full_pools' = a.full_pools
    /\ sets_per_pool' = a.sets_per_pool

\* The record of a call: its name, the driver's dispositions it ran against,
\* the pools it tried and the answers it got, the pool of the set it
\* returned, its growth steps, the pools it created, the allocator before
\* it, and whether some pool had sets allocated from it before it.
CallRecord(op, driver, tried, results, set, growth, d) ==
    [op |-> op, driver |-> driver, tried |-> tried, results |-> results,
     set |-> set, growth |-> growth,
     created |-> {p \in PoolIds : pools[p].state = "null" /\ d[p].state # "null"},
     pre |-> Self,
     pre_used |-> \E p \in PoolIds : pools[p].used > 0]

Slots == 0..(MAX_FRAMES_IN_FLIGHT - 1)
ImageIds == 1..SwapchainImages

\* Option values: None, or Some(x) as {x}.
None == {}

\* A swapchain image nobody holds: the presentation engine can hand it out.
FreeImage == [state |-> "free", semaphore |-> None]

\* --- ownership
\* The fields of VulkanRenderer that own device objects, and their types.
RendererFields ==
    {"allocator", "device", "frame_data", "draw_image", "descriptor_allocator",
     "gradient_pipeline", "test_meshes"}
TypeOf(field) ==
    CASE field = "allocator" -> "Arc<Mutex<Allocator>>"
      [] field = "device" -> "Arc<Device>"
      [] field = "frame_data" -> "Vec<FrameData>"
      [] field = "draw_image" -> "AllocatedImage"
      [] field = "descriptor_allocator" -> "DescriptorAllocator"
      [] field = "gradient_pipeline" -> "ComputePipeline"
      [] field = "test_meshes" -> "GPUMeshBuffers"

\* The owning fields of a type, in declaration order (the order they are
\* dropped in).
FieldsOf(type) ==
    CASE type = "Vec<FrameData>" -> [k \in 1..MAX_FRAMES_IN_FLIGHT |-> "FrameData"]
      [] type = "FrameData" ->
           <<"Arc<Device>", "DescriptorAllocatorGrowable", "AllocatedBuffer">>
      [] type = "AllocatedImage" -> <<"Arc<Device>", "Arc<Mutex<Allocator>>">>
      [] type = "AllocatedBuffer" -> <<"Arc<Device>", "Arc<Mutex<Allocator>>">>
      [] type = "DescriptorAllocator" -> <<"Arc<Device>">>
      [] type = "DescriptorAllocatorGrowable" -> <<"Arc<Device>">>
      [] type = "ComputePipeline" -> <<"Arc<Device>">>
      [] type = "GPUMeshBuffers" -> <<"AllocatedBuffer", "AllocatedBuffer">>
      [] type = "Allocator" -> <<"gpu_allocator::Allocator", "Arc<Device>">>
      [] OTHER -> <<>>

\* The types whose drop destroys objects of the logical device.
DeviceObjects ==
    {"FrameData", "AllocatedImage", "AllocatedBuffer", "DescriptorAllocator",
     "DescriptorAllocatorGrowable", "ComputePipeline",
     "gpu_allocator::Allocator"}
Arcs == {"Arc<Device>", "Arc<Mutex<Allocator>>"}

\* How many values of type target a value of type type owns, itself included;
\* the Allocator behind an Arc is shared, not owned.
RECURSIVE CountOf(_, _)
CountOf(type, target) ==
    LET fields == FieldsOf(type)
        RECURSIVE Sum(_)
        Sum(i) == IF i > Len(fields) THEN 0
                  ELSE CountOf(fields[i], target) + Sum(i + 1)
    IN  (IF type = target THEN 1 ELSE 0) + Sum(1)
RECURSIVE CountIn(_, _)
CountIn(fields, target) ==
    IF fields = {} THEN 0
    ELSE LET f == CHOOSE f \in fields : TRUE
         IN  CountOf(TypeOf(f), target) + CountIn(fields \ {f}, target)

\* Variant of drop_arc: the value behind the pointer is dropped with every
\* pointer (a plain owned handle).
drop_arc_owned(strong) == [strong |-> strong - 1, last |-> TRUE]

\* Dropping an Arc: the strong count goes down by one and the value behind
\* it is dropped with the last one.
drop_arc(strong) == [strong |-> strong - 1, last |-> strong = 1]

\* The renderer as VulkanRenderer::new returns it: every field alive, one
\* strong reference per Arc field (the Allocator holds an Arc<Device> too).
TeardownIdle ==
    /\ renderer_fields = RendererFields
    /\ teardown_pc = <<>>
    /\ live = [t \in DeviceObjects |->
                 CountIn(RendererFields, t) + CountOf("Allocator", t)]
    /\ device_strong = CountIn(RendererFields, "Arc<Device>")
                        + CountOf("Allocator", "Arc<Device>")
    /\ allocator_strong = CountIn(RendererFields, "Arc<Mutex<Allocator>>")
    /\ device_handle = "live"

\* The threads, none of them started.
Threads == 1..NumThreads
ThreadsIdle ==
    /\ thread_pc = [t \in Threads |-> <<>>]
    /\ thread_state = [t \in Threads |-> "new"]
    /\ thread_fence = [t \in Threads |-> "signaled"]
    /\ thread_pending = [t \in Threads |-> FALSE]

\* No buffer built and no copy, texture or packing call made; the
\* checkerboard loop of init_default_textures not entered.
NoBuffer == [location |-> "none", cpu_accesible |-> FALSE, allocation |-> None,
             memory |-> <<>>]
NoCall == [op |-> "none"]
CopyIdle ==
    /\ buffer = NoBuffer
    /\ copy_call = NoCall
TextureIdle ==
    /\ texture_call = NoCall
    /\ pack_call = NoCall
    /\ checkerboard = <<>>
    /\ loop_i = 0
    /\ loop_j = 0

\* The images draw() records commands on, each in the layout it is created
\* in; a DescriptorAllocator as new() returns it; no window event handled.
Images ==
    {<<"draw_image", 0>>, <<"depth_image", 0>>}
        \cup {<<"presentation_image", i>> : i \in ImageIds}
MoreIdle ==
    /\ recorded = <<>>
    /\ image_layout = [i \in Images |-> "UNDEFINED"]
    /\ pool = None
    /\ window_event = NoCall

\* An object an upload call builds: the constructor calls done on it, whether
\* its wrapper value exists, its allocation field (Option<Allocation>),
\* whether its drop has been entered, the calls its drop has made, the
\* free_allocation calls made for its allocation, whether its handle has been
\* destroyed.
NoObject ==
    [done |-> <<>>, wrapper |-> FALSE, allocation |-> None, dropped |-> FALSE,
     undone |-> <<>>, frees |-> 0, destroyed |-> FALSE]

\* Arc<Mutex<Allocator>>: unlocked, not poisoned.
NewMutex == [holder |-> None, poisoned |-> FALSE]

\* No upload call under way; ImmediateCommandData::new: the fence is created
\* SIGNALED.
UploadIdle ==
    /\ upload_fn = "none"
    /\ upload_pc = <<>>
    /\ upload_steps = <<>>
    /\ uploads = 0
    /\ objects = [o \in {"staging_buffer", "image", "vertex_buffer", "index_buffer"} |-> NoObject]
    /\ immediate_fence = "signaled"
    /\ immediate_command_buffer = [state |-> "initial", reads |-> {}]
    /\ immediate_queue = <<>>
    /\ drop_pc = <<>>
    /\ allocator_mutex = NewMutex
    /\ aborted = FALSE
    /\ TeardownIdle
    /\ ThreadsIdle
    /\ CopyIdle
    /\ TextureIdle
    /\ MoreIdle

\* The renderer between two draw() calls, before the first one: fences
\* created SIGNALED, semaphores unsignaled, nothing submitted.
FrameIdle ==
    /\ frame_index = 0
    /\ pc = "idle"
    /\ steps = <<>>
    /\ logical_size = None
    /\ presentation_image_index = None
    /\ in_flight_fence = [k \in Slots |-> "signaled"]
    /\ command_buffer = [k \in Slots |-> [state |-> "initial", sets |-> {}]]
    /\ image_available_semaphore = [k \in Slots |-> "unsignaled"]
    /\ result_presentable_semaphore = [k \in Slots |-> "unsignaled"]
    /\ live_sets = {}
    /\ queue = <<>>
    /\ present_queue = <<>>
    /\ resize_swapchain = None
    /\ swapchain_epoch = 0
    /\ swapchain_extent = None
    /\ images = [i \in ImageIds |-> FreeImage]
    /\ UploadIdle

\* The fields of a new allocator and the record of that call.
AllocLocal(max_sets) ==
    /\ ready_pools = <<>>
    /\ full_pools = <<>>
    /\ sets_per_pool = max_sets
    /\ panicked = FALSE
    /\ dropped = FALSE
    /\ call = [op |-> "new", driver |-> <<>>, tried |-> <<>>, results |-> <<>>,
               set |-> NoSet, growth |-> <<>>, created |-> {},
               pre |-> new(max_sets),
               pre_used |-> FALSE]

\* A new allocator on a device without descriptor pools; no frame allocator
\* has a pool.
AllocFresh(max_sets) ==
    /\ AllocLocal(max_sets)
    /\ pools = [p \in PoolIds |-> NullPool]
    /\ frame_descriptors = [k \in Slots |-> new(FRAME_MAX_SETS)]

\* After DescriptorAllocatorGrowable::new(device, ratios, max_sets).
Init ==
    /\ \E max_sets \in MaxSetsInputs : AllocFresh(max_sets)
    /\ FrameIdle

\* One init_pool call, while the driver has a handle left.
InitPool ==
    /\ ~panicked /\ ~dropped
    /\ FreeHandles(pools) # {}
    /\ LET r == init_pool(Self, BeginCall(pools))
       IN  /\ Store(r.a)
           /\ pools' = r.d
           /\ call' = CallRecord("init_pool", <<>>, <<>>, <<>>, NoSet, r.growth, r.d)
    /\ UNCHANGED <<panicked, dropped>>
    /\ UNCHANGED <<frameVars, uploadVars>>

\* One allocate call.  It may create up to two pools, so it runs while the
\* driver has the handles left; the caller stops allocating once a pool has
\* served MaxUsed sets since its last reset.
Allocate ==
    /\ ~panicked /\ ~dropped
    /\ Cardinality(FreeHandles(pools)) >= 2 - MinOf(Len(ready_pools), 2)
    /\ \A p \in LivePools(pools) : pools[p].used < MaxUsed
    /\ \E r1 \in VkResults, r2 \in VkResults :
         LET r == allocate(Self, BeginCall(pools), r1, r2)
         IN  /\ Store(r.a)
             /\ pools' = r.d
             /\ panicked' = r.panic
             /\ call' = CallRecord("allocate", <<r1, r2>>, r.tried, r.results,
                                   r.set, r.growth, r.d)
    /\ UNCHANGED dropped
    /\ UNCHANGED <<frameVars, uploadVars>>

ClearPools ==
    /\ ~panicked /\ ~dropped
    /\ LET r == clear_pools(Self, BeginCall(pools))
       IN  /\ Store(r.a)
           /\ pools' = r.d
           /\ call' = CallRecord("clear_pools", <<>>, <<>>, <<>>, NoSet, <<>>, r.d)
    /\ UNCHANGED <<panicked, dropped>>
    /\ UNCHANGED <<frameVars, uploadVars>>

DestroyPools ==
    /\ ~panicked /\ ~dropped
    /\ LET r == destroy_pools(Self, BeginCall(pools))
       IN  /\ Store(r.a)
           /\ pools' = r.d
           /\ call' = CallRecord("destroy_pools", <<>>, <<>>, <<>>, NoSet, <<>>, r.d)
    /\ UNCHANGED <<panicked, dropped>>
    /\ UNCHANGED <<frameVars, uploadVars>>

\* impl Drop for DescriptorAllocatorGrowable: drop calls destroy_pools.  The
\* value is dropped by its owner, or by the unwinding of a panic.
Drop ==
    /\ ~dropped
    /\ LET r == destroy_pools(Self, BeginCall(pools))
       IN  /\ Store(r.a)
           /\ pools' = r.d
           /\ call' = CallRecord("drop", <<>>, <<>>, <<>>, NoSet, <<>>, r.d)
    /\ dropped' = TRUE
    /\ UNCHANGED panicked
    /\ UNCHANGED <<frameVars, uploadVars>>

Next == InitPool \/ Allocate \/ ClearPools \/ DestroyPools \/ Drop

Spec == Init /\ [][Next]_vars

\* ------------------------------------------- one frame allocator, exhausted
\* The allocator of one FrameData, new(.., 1000) then init_pool(), serving
\* allocate calls against a driver whose pools serve exactly max_sets sets:
\* it is disposed to answer SUCCESS to every attempt, and a pool that has
\* served max_sets sets answers ERROR_OUT_OF_POOL_MEMORY.
ScenarioInit ==
    /\ AllocFresh(FRAME_MAX_SETS)
    /\ FrameIdle

ScenarioInitPool ==
    /\ call.op = "new"
    /\ InitPool

\* allocate calls, until one of them has needed a second attempt.
ScenarioAllocate ==
    /\ ~panicked /\ ~dropped
    /\ call.op \in {"init_pool", "allocate"}
    /\ Len(call.tried) < 2
    /\ LET r == allocate(Self, BeginCall(pools), "SUCCESS", "SUCCESS")
       IN  /\ Store(r.a)
           /\ pools' = r.d
           /\ panicked' = r.panic
           /\ call' = CallRecord("allocate", <<"SUCCESS", "SUCCESS">>, r.tried,
                                 r.results, r.set, r.growth, r.d)
    /\ UNCHANGED dropped
    /\ UNCHANGED <<frameVars, uploadVars>>

ScenarioNext == ScenarioInitPool \/ ScenarioAllocate

ScenarioSpec == ScenarioInit /\ [][ScenarioNext]_vars

\* -------------------------------------------------------------- frame loop
\* One CPU thread runs draw() (pc is the step it is about to take, "idle"
\* between calls); the GPU retires the submissions of the graphics queue in
\* submission order; the presentation engine hands out and displays the
\* swapchain images.
\* winit::dpi::LogicalSize values the window can report.
LogicalSizes == {"size_a", "size_b"}

\* get_current_frame: the slot of frame frame_index.
get_current_frame(fi) == fi % MAX_FRAMES_IN_FLIGHT

\* Variant of wait_for_fence: the result of the wait is dropped, so a
\* timeout returns like a signaled fence.
wait_for_fence_ignore_timeout(fence) == fence \in {"signaled", "unsignaled"}

\* Device::wait_for_fence returns normally iff the fence is signaled before
\* the timeout; otherwise the .expect(..) panics.
wait_for_fence(fence) == fence = "signaled"

\* Variant of wait_idle: the call returns without waiting.
wait_idle_no_wait(q) == TRUE

\* Device::wait_idle (vkDeviceWaitIdle) returns once every submission to the
\* device's queues has completed.
wait_idle(q) == q = <<>>

\* Variant of reset_fence: the fence is left as it is.
reset_fence_noop(fence) == fence

\* Device::reset_fence: the fence becomes unsignaled.
reset_fence(fence) == "unsignaled"

\* Variant of take: the pending value is read but left in place.
take_keep(option) == [value |-> option, left |-> option]

\* Option::take: the value is moved out and None is left behind.
take(option) == [value |-> option, left |-> None]

\* Variant of DrawOrder: the slot's pools are cleared before the fence wait.
DrawOrder_clear_before_wait ==
    <<"clear_pools", "wait_fence", "reset_fence", "acquire",
      "reset_command_buffer", "begin_command_buffer", "record",
      "end_command_buffer", "submit", "present">>

\* Variant of DrawOrder: the fence is reset after the submission.
DrawOrder_reset_after_submit ==
    <<"wait_fence", "clear_pools", "acquire", "reset_command_buffer",
      "begin_command_buffer", "record", "end_command_buffer", "submit",
      "reset_fence", "present">>

\* Variant of DrawOrder: the image is acquired after the submission.
DrawOrder_acquire_after_submit ==
    <<"wait_fence", "reset_fence", "clear_pools", "reset_command_buffer",
      "begin_command_buffer", "record", "end_command_buffer", "submit",
      "acquire", "present">>

\* Variant of DrawOrder: the image is presented before the submission.
DrawOrder_present_before_submit ==
    <<"wait_fence", "reset_fence", "clear_pools", "acquire",
      "reset_command_buffer", "begin_command_buffer", "record",
      "end_command_buffer", "present", "submit">>

\* The statements of draw() after the resize block, in program order.
DrawOrder ==
    <<"wait_fence", "reset_fence", "clear_pools", "acquire",
      "reset_command_buffer", "begin_command_buffer", "record",
      "end_command_buffer", "submit", "present">>

\* The statement that follows statement s; after the last one draw() returns.
AfterStep(s) ==
    LET i == CHOOSE j \in 1..Len(DrawOrder) : DrawOrder[j] = s
    IN  IF i = Len(DrawOrder) THEN "idle" ELSE DrawOrder[i + 1]

\* Variant of submit_to_queue: the submission waits on no semaphore.
submit_to_queue_no_wait(slot, fence) ==
    [slot |-> slot, wait |-> {}, signal |-> {slot}, fence |-> fence]

\* submit_to_queue(current_frame, fence): the slot's command buffer, waiting
\* on the slot's image_available_semaphore at COLOR_ATTACHMENT_OUTPUT,
\* signaling the slot's result_presentable_semaphore, fenced by fence.
submit_to_queue(slot, fence) ==
    [slot |-> slot, wait |-> {slot}, signal |-> {slot}, fence |-> fence]

\* Swapchain::present_image(wait_semaphore, image_index).
present_image(wait_semaphore, image_index) ==
    [wait |-> {wait_semaphore}, image |-> image_index]

\* Swapchain::recreate: the old swapchain is dropped, a new one constructed.
recreate(imgs) == [i \in ImageIds |-> FreeImage]

\* Slots with a submission the GPU has not retired yet.
Outstanding == {queue[i].slot : i \in 1..Len(queue)}

\* FrameData::new for slots k..N-1: each slot's allocator is new(.., 1000)
\* followed by init_pool().
RECURSIVE NewFrames(_, _, _)
NewFrames(k, fd, d) ==
    IF k = MAX_FRAMES_IN_FLIGHT THEN [fd |-> fd, d |-> d]
    ELSE LET r == init_pool(new(FRAME_MAX_SETS), d)
         IN  NewFrames(k + 1, [fd EXCEPT ![k] = r.a], r.d)

\* VulkanRenderer::new: FrameData::new for every slot, frame_index: 0,
\* resize_swapchain: None.
FrameInit ==
    /\ AllocLocal(FRAME_MAX_SETS)
    /\ FrameIdle
    /\ LET r == NewFrames(0, [k \in Slots |-> new(FRAME_MAX_SETS)],
                          [p \in PoolIds |-> NullPool])
       IN  /\ frame_descriptors = r.fd
           /\ pools = r.d

\* The step (statement, slot it acts on) appended to the trace of draw().
Step(op) == <<op, get_current_frame(frame_index)>>

\* resize_swapchain(logical_size), called between two draw() calls.
ResizeSwapchain ==
    /\ ~panicked /\ pc = "idle"
    /\ swapchain_epoch < MaxResizes
    /\ \E logical \in LogicalSizes : resize_swapchain' = {logical}
    /\ UNCHANGED <<frame_index, pc, steps, logical_size,
                   presentation_image_index, in_flight_fence, command_buffer,
                   frame_descriptors, live_sets, queue, swapchain_epoch,
                   swapchain_extent, image_available_semaphore,
                   result_presentable_semaphore, images, present_queue,
                   pools, panicked>>
    /\ UNCHANGED <<standaloneVars, uploadVars>>

\* draw(): if let Some(logical_size) = self.resize_swapchain.take()
DrawStart ==
    /\ ~panicked /\ pc = "idle"
    /\ frame_index < MaxFrames
    /\ LET t == take(resize_swapchain)
       IN  /\ resize_swapchain' = t.left
           /\ logical_size' = t.value
           /\ pc' = IF t.value # None THEN "wait_idle" ELSE Head(DrawOrder)
    /\ steps' = <<>>
    /\ UNCHANGED <<frame_index, presentation_image_index, in_flight_fence,
                   command_buffer, frame_descriptors, live_sets, queue,
                   swapchain_epoch, swapchain_extent,
                   image_available_semaphore, result_presentable_semaphore,
                   images, present_queue, pools, panicked>>
    /\ UNCHANGED <<standaloneVars, uploadVars>>

\* self.device.wait_idle() returns once the device has no work left.
DrawWaitIdle ==
    /\ ~panicked /\ pc = "wait_idle"
    /\ wait_idle(queue)
    /\ pc' = "recreate"
    /\ steps' = Append(steps, Step("wait_idle"))
    /\ UNCHANGED <<frame_index, logical_size, presentation_image_index,
                   in_flight_fence, command_buffer, frame_descriptors,
                   live_sets, queue, resize_swapchain, swapchain_epoch,
                   swapchain_extent, image_available_semaphore,
                   result_presentable_semaphore, images, present_queue,
                   pools, panicked>>
    /\ UNCHANGED <<standaloneVars, uploadVars>>

\* self.swapchain.recreate(&self.physical_device, logical_size)
DrawRecreateSwapchain ==
    /\ ~panicked /\ pc = "recreate"
    /\ images' = recreate(images)
    /\ swapchain_epoch' = swapchain_epoch + 1
    /\ swapchain_extent' = logical_size
    /\ pc' = Head(DrawOrder)
    /\ steps' = Append(steps, Step("recreate"))
    /\ UNCHANGED <<frame_index, logical_size, presentation_image_index,
                   in_flight_fence, command_buffer, frame_descriptors,
                   live_sets, queue, resize_swapchain,
                   image_available_semaphore, result_presentable_semaphore,
                   present_queue, pools, panicked>>
    /\ UNCHANGED <<standaloneVars, uploadVars>>

\* wait_for_fence(in_flight_fence, 1_000_000_000) returns.
DrawWaitFence ==
    /\ ~panicked /\ pc = "wait_fence"
    /\ wait_for_fence(in_flight_fence[get_current_frame(frame_index)])
    /\ pc' = AfterStep("wait_fence")
    /\ steps' = Append(steps, Step("wait_for_fence"))
    /\ UNCHANGED <<frame_index, logical_size, presentation_image_index,
                   in_flight_fence, command_buffer, frame_descriptors,
                   live_sets, queue, resize_swapchain, swapchain_epoch,
                   swapchain_extent, image_available_semaphore,
                   result_presentable_semaphore, images, present_queue,
                   pools, panicked>>
    /\ UNCHANGED <<standaloneVars, uploadVars>>

\* The wait times out: the GPU did not retire the slot's submission in 1 s.
DrawWaitFenceTimeout ==
    /\ ~panicked /\ pc = "wait_fence"
    /\ ~wait_for_fence(in_flight_fence[get_current_frame(frame_index)])
    /\ panicked' = TRUE
    /\ UNCHANGED <<frame_index, pc, steps, logical_size,
                   presentation_image_index, in_flight_fence, command_buffer,
                   frame_descriptors, live_sets, queue, resize_swapchain,
                   swapchain_epoch, swapchain_extent,
                   image_available_semaphore, result_presentable_semaphore,
                   images, present_queue, pools>>
    /\ UNCHANGED <<standaloneVars, uploadVars>>

\* reset_fence(in_flight_fence)
DrawResetFence ==
    /\ ~panicked /\ pc = "reset_fence"
    /\ in_flight_fence' =
         [in_flight_fence EXCEPT ![get_current_frame(frame_index)] = reset_fence(@)]
    /\ pc' = AfterStep("reset_fence")
    /\ steps' = Append(steps, Step("reset_fence"))
    /\ UNCHANGED <<frame_index, logical_size, presentation_image_index,
                   command_buffer, frame_descriptors, live_sets, queue,
                   resize_swapchain, swapchain_epoch, swapchain_extent,
                   image_available_semaphore, result_presentable_semaphore,
                   images, present_queue, pools, panicked>>
    /\ UNCHANGED <<standaloneVars, uploadVars>>

\* self.get_current_frame_mut().frame_descriptors.clear_pools(): the sets of
\* every pool that is reset are gone.
DrawClearPools ==
    /\ ~panicked /\ pc = "clear_pools"
    /\ LET k == get_current_frame(frame_index)
           r == clear_pools(frame_descriptors[k], BeginCall(pools))
       IN  /\ frame_descriptors' = [frame_descriptors EXCEPT ![k] = r.a]
           /\ pools' = r.d
           /\ live_sets' = {s \in live_sets : r.d[s.pool].resets = 0}
    /\ pc' = AfterStep("clear_pools")
    /\ steps' = Append(steps, Step("clear_pools"))
    /\ UNCHANGED <<frame_index, logical_size, presentation_image_index,
                   in_flight_fence, command_buffer, queue, resize_swapchain,
                   swapchain_epoch, swapchain_extent,
                   image_available_semaphore, result_presentable_semaphore,
                   images, present_queue, panicked>>
    /\ UNCHANGED <<standaloneVars, uploadVars>>

\* swapchain.acquire_next_image(image_available_semaphore, 1_000_000_000):
\* the index of an image the presentation engine can hand out is returned,
\* and the semaphore will be signaled once the image can be written.  The
\* images it can hand out are interchangeable: the lowest index stands for
\* any of them.
DrawAcquire ==
    /\ ~panicked /\ pc = "acquire"
    /\ \/ /\ \E i \in ImageIds :
               /\ images[i].state = "free"
               /\ \A j \in ImageIds : images[j].state = "free" => i <= j
               /\ images' = [images EXCEPT ![i] =
                    [state |-> "acquiring",
                     semaphore |-> {get_current_frame(frame_index)}]]
               /\ presentation_image_index' = {i}
          /\ pc' = AfterStep("acquire")
          /\ steps' = Append(steps, Step("acquire_next_image"))
          /\ UNCHANGED panicked
       \/ \* Err(e) => panic!
          /\ panicked' = TRUE
          /\ UNCHANGED <<images, presentation_image_index, pc, steps>>
    /\ UNCHANGED <<frame_index, logical_size, in_flight_fence,
                   command_buffer, frame_descriptors, live_sets, queue,
                   resize_swapchain, swapchain_epoch, swapchain_extent,
                   image_available_semaphore, result_presentable_semaphore,
                   present_queue, pools>>
    /\ UNCHANGED <<standaloneVars, uploadVars>>

\* self.device.reset_command_buffer(command_buffer)
DrawResetCommandBuffer ==
    /\ ~panicked /\ pc = "reset_command_buffer"
    /\ command_buffer' =
         [command_buffer EXCEPT ![get_current_frame(frame_index)] =
            [state |-> "initial", sets |-> {}]]
    /\ pc' = AfterStep("reset_command_buffer")
    /\ steps' = Append(steps, Step("reset_command_buffer"))
    /\ UNCHANGED <<frame_index, logical_size, presentation_image_index,
                   in_flight_fence, frame_descriptors, live_sets, queue,
                   resize_swapchain, swapchain_epoch, swapchain_extent,
                   image_available_semaphore, result_presentable_semaphore,
                   images, present_queue, pools, panicked>>
    /\ UNCHANGED <<standaloneVars, uploadVars>>

\* begin_command_buffer(command_buffer, ONE_TIME_SUBMIT)
DrawBeginCommandBuffer ==
    /\ ~panicked /\ pc = "begin_command_buffer"
    /\ command_buffer' =
         [command_buffer EXCEPT ![get_current_frame(frame_index)].state = "recording"]
    /\ pc' = AfterStep("begin_command_buffer")
    /\ steps' = Append(steps, Step("begin_command_buffer"))
    /\ UNCHANGED <<frame_index, logical_size, presentation_image_index,
                   in_flight_fence, frame_descriptors, live_sets, queue,
                   resize_swapchain, swapchain_epoch, swapchain_extent,
                   image_available_semaphore, result_presentable_semaphore,
                   images, present_queue, pools, panicked>>
    /\ UNCHANGED <<standaloneVars, uploadVars>>

\* The descriptor sets a returning allocate call handed out in frame fi.
SetsOf(r, fi) == {[pool |-> p, frame |-> fi] : p \in r.set}

\* The recording of the frame's commands: descriptor_set and image_set are
\* allocated from the slot's allocator, image_set is bound.  r1 and r2 are
\* the driver's dispositions during the first and the second allocate call.
DrawRecord ==
    /\ ~panicked /\ pc = "record"
    /\ \E r1 \in VkResults, r2 \in VkResults :
         LET k == get_current_frame(frame_index)
             descriptor_set == allocate(frame_descriptors[k], BeginCall(pools), r1, r1)
             image_set == allocate(descriptor_set.a, BeginCall(descriptor_set.d), r2, r2)
         IN  IF descriptor_set.panic
             THEN /\ frame_descriptors' = [frame_descriptors EXCEPT ![k] = descriptor_set.a]
                  /\ pools' = descriptor_set.d
                  /\ panicked' = TRUE
                  /\ steps' = Append(steps, Step("allocate"))
                  /\ UNCHANGED <<live_sets, command_buffer, pc>>
             ELSE IF image_set.panic
             THEN /\ frame_descriptors' = [frame_descriptors EXCEPT ![k] = image_set.a]
                  /\ pools' = image_set.d
                  /\ panicked' = TRUE
                  /\ steps' = steps \o <<Step("allocate"), Step("allocate")>>
                  /\ live_sets' = live_sets \cup SetsOf(descriptor_set, frame_index)
                  /\ UNCHANGED <<command_buffer, pc>>
             ELSE /\ frame_descriptors' = [frame_descriptors EXCEPT ![k] = image_set.a]
                  /\ pools' = image_set.d
                  /\ live_sets' = live_sets \cup SetsOf(descriptor_set, frame_index)
                                            \cup SetsOf(image_set, frame_index)
                  /\ command_buffer' = [command_buffer EXCEPT ![k].sets =
                                          SetsOf(image_set, frame_index)]
                  /\ steps' = steps \o <<Step("allocate"), Step("allocate"),
                                         Step("record")>>
                  /\ pc' = AfterStep("record")
                  /\ UNCHANGED panicked
    /\ UNCHANGED <<frame_index, logical_size, presentation_image_index,
                   in_flight_fence, queue, resize_swapchain, swapchain_epoch,
                   swapchain_extent, image_available_semaphore,
                   result_presentable_semaphore, images, present_queue>>
    /\ UNCHANGED <<standaloneVars, uploadVars>>

\* self.device.end_command_buffer(command_buffer)
DrawEndCommandBuffer ==
    /\ ~panicked /\ pc = "end_command_buffer"
    /\ command_buffer' =
         [command_buffer EXCEPT ![get_current_frame(frame_index)].state = "executable"]
    /\ pc' = AfterStep("end_command_buffer")
    /\ steps' = Append(steps, Step("end_command_buffer"))
    /\ UNCHANGED <<frame_index, logical_size, presentation_image_index,
                   in_flight_fence, frame_descriptors, live_sets, queue,
                   resize_swapchain, swapchain_epoch, swapchain_extent,
                   image_available_semaphore, result_presentable_semaphore,
                   images, present_queue, pools, panicked>>
    /\ UNCHANGED <<standaloneVars, uploadVars>>

\* self.submit_to_queue(current_frame, current_frame.in_flight_fence)
DrawSubmit ==
    /\ ~panicked /\ pc = "submit"
    /\ LET k == get_current_frame(frame_index)
           s == submit_to_queue(k, k)
       IN  /\ queue' = Append(queue,
                [slot |-> s.slot, wait |-> s.wait, signal |-> s.signal,
                 fence |-> s.fence, frame |-> frame_index,
                 image |-> presentation_image_index,
                 sets |-> command_buffer[k].sets, phase |-> "queued"])
           /\ command_buffer' = [command_buffer EXCEPT ![k].state = "pending"]
           /\ steps' = Append(steps, <<"submit", s.fence>>)
    /\ pc' = AfterStep("submit")
    /\ UNCHANGED <<frame_index, logical_size, presentation_image_index,
                   in_flight_fence, frame_descriptors, live_sets,
                   resize_swapchain, swapchain_epoch, swapchain_extent,
                   image_available_semaphore, result_presentable_semaphore,
                   images, present_queue, pools, panicked>>
    /\ UNCHANGED <<standaloneVars, uploadVars>>

\* self.swapchain.present_image(result_presentable_semaphore,
\* presentation_image_index); self.frame_index += 1
DrawPresent ==
    /\ ~panicked /\ pc = "present"
    /\ \/ /\ LET k == get_current_frame(frame_index)
             IN  /\ \E i \in presentation_image_index :
                       LET p == present_image(k, i)
                       IN  /\ present_queue' = Append(present_queue,
                                 [wait |-> p.wait, image |-> p.image,
                                  epoch |-> swapchain_epoch])
                           /\ images' = [images EXCEPT ![p.image].state = "queued"]
                 /\ steps' = steps \o <<Step("present"), Step("frame_index += 1")>>
          /\ frame_index' = frame_index + 1
          /\ pc' = AfterStep("present")
          /\ UNCHANGED panicked
       \/ \* queue_present(..).expect("Failed to present image")
          /\ panicked' = TRUE
          /\ UNCHANGED <<present_queue, images, steps, frame_index, pc>>
    /\ UNCHANGED <<logical_size, presentation_image_index, in_flight_fence,
                   command_buffer, frame_descriptors, live_sets, queue,
                   resize_swapchain, swapchain_epoch, swapchain_extent,
                   image_available_semaphore, result_presentable_semaphore,
                   pools>>
    /\ UNCHANGED <<standaloneVars, uploadVars>>

\* The presentation engine has finished with an acquired image: the
\* semaphore given to acquire_next_image is signaled (the signal is pending
\* while the image's semaphore field is set; the application may have
\* queued the image for presentation by then).
ImageAvailable ==
    /\ \E i \in ImageIds :
         /\ images[i].semaphore # None
         /\ images' = [images EXCEPT ![i] =
              [state |-> IF @.state = "acquiring" THEN "acquired" ELSE @.state,
               semaphore |-> None]]
         /\ image_available_semaphore' =
              [k \in Slots |-> IF k \in images[i].semaphore THEN "signaled"
                               ELSE image_available_semaphore[k]]
    /\ UNCHANGED <<frame_index, pc, steps, logical_size,
                   presentation_image_index, in_flight_fence, command_buffer,
                   frame_descriptors, live_sets, queue, resize_swapchain,
                   swapchain_epoch, swapchain_extent,
                   result_presentable_semaphore, present_queue, pools,
                   panicked>>
    /\ UNCHANGED <<standaloneVars, uploadVars>>

\* The oldest submission reaches COLOR_ATTACHMENT_OUTPUT: the semaphores it
\* waits on are signaled, and the wait unsignals them.
GpuColorOutput ==
    /\ queue # <<>>
    /\ Head(queue).phase = "queued"
    /\ \A k \in Head(queue).wait : image_available_semaphore[k] = "signaled"
    /\ image_available_semaphore' =
         [k \in Slots |-> IF k \in Head(queue).wait THEN "unsignaled"
                          ELSE image_available_semaphore[k]]
    /\ queue' = [queue EXCEPT ![1].phase = "color_output"]
    /\ UNCHANGED <<frame_index, pc, steps, logical_size,
                   presentation_image_index, in_flight_fence, command_buffer,
                   frame_descriptors, live_sets, resize_swapchain,
                   swapchain_epoch, swapchain_extent,
                   result_presentable_semaphore, images, present_queue,
                   pools, panicked>>
    /\ UNCHANGED <<standaloneVars, uploadVars>>

\* The GPU retires the oldest submission: its command buffer has executed
\* (a ONE_TIME_SUBMIT buffer becomes invalid), its semaphores and its fence
\* are signaled.
GpuComplete ==
    /\ queue # <<>>
    /\ Head(queue).phase = "color_output"
    /\ in_flight_fence' = [in_flight_fence EXCEPT ![Head(queue).fence] = "signaled"]
    /\ result_presentable_semaphore' =
         [k \in Slots |-> IF k \in Head(queue).signal THEN "signaled"
                          ELSE result_presentable_semaphore[k]]
    /\ command_buffer' = [command_buffer EXCEPT ![Head(queue).slot].state = "invalid"]
    /\ queue' = Tail(queue)
    /\ UNCHANGED <<frame_index, pc, steps, logical_size,
                   presentation_image_index, frame_descriptors, live_sets,
                   resize_swapchain, swapchain_epoch, swapchain_extent,
                   image_available_semaphore, images, present_queue, pools,
                   panicked>>
    /\ UNCHANGED <<standaloneVars, uploadVars>>

\* The presentation engine executes the oldest present request once the
\* semaphores it waits on are signaled: the image is displayed and the image
\* displayed before it is released.  A request of a swapchain that has been
\* replaced only consumes its semaphores.
PresentExecute ==
    /\ present_queue # <<>>
    /\ \A k \in Head(present_queue).wait : result_presentable_semaphore[k] = "signaled"
    /\ result_presentable_semaphore' =
         [k \in Slots |-> IF k \in Head(present_queue).wait THEN "unsignaled"
                          ELSE result_presentable_semaphore[k]]
    /\ images' =
         IF Head(present_queue).epoch # swapchain_epoch THEN images
         ELSE [i \in ImageIds |->
                 IF i = Head(present_queue).image
                 THEN [images[i] EXCEPT !.state = "presented"]
                 ELSE IF images[i].state = "presented" THEN FreeImage
                 ELSE images[i]]
    /\ present_queue' = Tail(present_queue)
    /\ UNCHANGED <<frame_index, pc, steps, logical_size,
                   presentation_image_index, in_flight_fence, command_buffer,
                   frame_descriptors, live_sets, queue, resize_swapchain,
                   swapchain_epoch, swapchain_extent,
                   image_available_semaphore, pools, panicked>>
    /\ UNCHANGED <<standaloneVars, uploadVars>>

FrameNext ==
    \/ ResizeSwapchain
    \/ DrawStart
    \/ DrawWaitIdle
    \/ DrawRecreateSwapchain
    \/ DrawWaitFence
    \/ DrawWaitFenceTimeout
    \/ DrawResetFence
    \/ DrawClearPools
    \/ DrawAcquire
    \/ DrawResetCommandBuffer
    \/ DrawBeginCommandBuffer
    \/ DrawRecord
    \/ DrawEndCommandBuffer
    \/ DrawSubmit
    \/ DrawPresent
    \/ ImageAvailable
    \/ GpuColorOutput
    \/ GpuComplete
    \/ PresentExecute

FrameSpec == FrameInit /\ [][FrameNext]_vars

\* The scheduling of the frame loop: the thread in draw() takes its next
\* step when it can, the GPU retires what is submitted to it, and the
\* presentation engine signals acquired images and executes present
\* requests.  Nothing is assumed about the timeout of the fence wait.
FrameFairness ==
    /\ WF_vars(DrawWaitIdle)
    /\ WF_vars(DrawRecreateSwapchain)
    /\ WF_vars(DrawWaitFence)
    /\ WF_vars(DrawResetFence)
    /\ WF_vars(DrawClearPools)
    /\ WF_vars(DrawAcquire)
    /\ WF_vars(DrawResetCommandBuffer)
    /\ WF_vars(DrawBeginCommandBuffer)
    /\ WF_vars(DrawRecord)
    /\ WF_vars(DrawEndCommandBuffer)
    /\ WF_vars(DrawSubmit)
    /\ WF_vars(DrawPresent)
    /\ WF_vars(ImageAvailable)
    /\ WF_vars(GpuColorOutput)
    /\ WF_vars(GpuComplete)
    /\ WF_vars(PresentExecute)

FrameLiveSpec == FrameSpec /\ FrameFairness

\* ----------------------------------------------------------------- uploads
\* AllocatedImage::new_texture and GPUMeshBuffers::upload_mesh, as the
\* renderer calls them while it is set up: each builds its buffers and
\* images, fills a staging buffer and copies from it on the GPU through
\* ImmediateCommandData::immediate_submit.  upload_pc holds the statements
\* the call has still to execute, upload_steps the ones it has executed.
ObjectNames == {"staging_buffer", "image", "vertex_buffer", "index_buffer"}

Stmt(op, obj) == [op |-> op, obj |-> obj]

\* AllocatedBuffer::new: the device and allocator calls, in program order.
BufferNewOrder ==
    <<"create_buffer", "get_buffer_memory_requirements", "allocate_buffer">>

\* Variant of ImageNewOrder: the image view is created before memory is
\* allocated and bound.
ImageNewOrder_view_first ==
    <<"create_image", "create_image_view", "get_image_memory_requirements",
      "allocate_image">>

\* AllocatedImage::new: the device and allocator calls, in program order.
ImageNewOrder ==
    <<"create_image", "get_image_memory_requirements", "allocate_image",
      "create_image_view">>

\* Variant of ImageDropOrder: the image handle is destroyed first.
ImageDropOrder_handle_first ==
    <<"destroy_image", "free_allocation", "destroy_image_view">>

\* impl Drop for AllocatedImage: the device and allocator calls, in program
\* order.
ImageDropOrder ==
    <<"destroy_image_view", "free_allocation", "destroy_image">>

\* Variant of BufferDropOrder: the buffer handle is destroyed first.
BufferDropOrder_handle_first == <<"destroy_buffer", "free_allocation">>

\* impl Drop for AllocatedBuffer: the allocator and device calls, in program
\* order.
BufferDropOrder == <<"free_allocation", "destroy_buffer">>

\* The calls of a constructor made under the Allocator's lock.
AllocateSteps == {"allocate_buffer", "allocate_image"}

\* The calls of Drop::drop on object obj.
Destruct(obj) ==
    LET order == IF obj = "image" THEN ImageDropOrder ELSE BufferDropOrder
    IN  [i \in 1..Len(order) |-> Stmt(order[i], obj)]

\* The wrapper locals of a call, in declaration order; unwinding drops them
\* in reverse.
Locals(fn) ==
    IF fn = "new_texture"
    THEN <<"staging_buffer", "image">>
    ELSE <<"vertex_buffer", "index_buffer", "staging_buffer">>

\* The calls of a constructor on object obj, then the wrapper value (Self).
Construct(order, obj) ==
    [i \in 1..Len(order) |-> Stmt(order[i], obj)] \o <<Stmt("Self", obj)>>

\* The calls that end in .expect(..): create, allocate (mutex lock, memory
\* allocation, bind) and view creation; the memory-requirement queries
\* cannot fail.
FallibleSteps ==
    {"create_buffer", "allocate_buffer", "create_image", "allocate_image",
     "create_image_view"}
BuildSteps == Range(BufferNewOrder) \cup Range(ImageNewOrder)

\* Variant of ImmediateOrder: the call returns after the submission.
ImmediateOrder_no_wait ==
    <<"reset_fence", "reset_command_buffer", "begin_command_buffer",
      "commands", "end_command_buffer", "submit">>

\* Variant of ImmediateOrder: the caller takes the Allocator's lock around the
\* submission and the wait.
ImmediateOrder_under_lock ==
    <<"lock", "reset_fence", "reset_command_buffer", "begin_command_buffer",
      "commands", "end_command_buffer", "submit", "wait_for_fence", "unlock">>

\* ImmediateCommandData::immediate_submit, in program order.
ImmediateOrder ==
    <<"reset_fence", "reset_command_buffer", "begin_command_buffer",
      "commands", "end_command_buffer", "submit", "wait_for_fence">>

immediate_submit == [i \in 1..Len(ImmediateOrder) |-> Stmt(ImmediateOrder[i], "immediate")]

\* The device calls of immediate_submit that end in .expect(..); the wait has
\* no timeout (u64::MAX).
ImmediateFallible ==
    {"reset_fence", "reset_command_buffer", "begin_command_buffer",
     "end_command_buffer", "submit"}

\* AllocatedImage::new_texture: the staging buffer is a local, dropped when
\* the function returns.
new_texture ==
    Construct(BufferNewOrder, "staging_buffer")
    \o <<Stmt("copy_from_slice", "staging_buffer")>>
    \o Construct(ImageNewOrder, "image")
    \o immediate_submit
    \o <<Stmt("drop", "staging_buffer")>>

\* GPUMeshBuffers::upload_mesh: the staging buffer is a local, dropped when
\* the function returns.
upload_mesh ==
    Construct(BufferNewOrder, "vertex_buffer")
    \o Construct(BufferNewOrder, "index_buffer")
    \o Construct(BufferNewOrder, "staging_buffer")
    \o <<Stmt("copy_from_slice", "staging_buffer"),
         Stmt("copy_from_slice", "staging_buffer")>>
    \o immediate_submit
    \o <<Stmt("drop", "staging_buffer")>>

Body(fn) == IF fn = "new_texture" THEN new_texture ELSE upload_mesh

\* The statement about to be executed.
AtOp(op) == upload_pc # <<>> /\ Head(upload_pc).op = op
Advance ==
    /\ upload_pc' = Tail(upload_pc)
    /\ upload_steps' = Append(upload_steps, Head(upload_pc))

\* VulkanRenderer::new, before the first upload.
UploadInit ==
    /\ AllocFresh(FRAME_MAX_SETS)
    /\ FrameIdle

\* The renderer calls new_texture or upload_mesh.  The objects of one call
\* are followed until they are dropped before those of the next call are.
UploadStart ==
    /\ ~panicked /\ upload_pc = <<>> /\ drop_pc = <<>>
    /\ uploads < MaxUploads
    /\ \A o \in ObjectNames : objects[o].wrapper => objects[o].destroyed
    /\ \E fn \in {"new_texture", "upload_mesh"} :
         /\ upload_fn' = fn
         /\ upload_pc' = Body(fn)
    /\ upload_steps' = <<>>
    /\ uploads' = uploads + 1
    /\ objects' = [o \in ObjectNames |-> NoObject]
    /\ UNCHANGED <<immediate_fence, immediate_command_buffer,
                   immediate_queue, panicked>>
    /\ UNCHANGED <<allocVars, frameVars, dropVars, restVars>>

\* One device or allocator call of a constructor succeeds.
UploadConstruct ==
    /\ ~panicked /\ upload_pc # <<>>
    /\ Head(upload_pc).op \in BuildSteps
    /\ objects' = [objects EXCEPT
                     ![Head(upload_pc).obj].done = Append(@, Head(upload_pc).op),
                     ![Head(upload_pc).obj].allocation =
                         IF Head(upload_pc).op \in AllocateSteps
                         THEN {"allocation"} ELSE @]
    /\ Advance
    /\ UNCHANGED <<upload_fn, uploads, immediate_fence,
                   immediate_command_buffer, immediate_queue, panicked>>
    /\ UNCHANGED <<allocVars, frameVars, dropVars, restVars>>

\* One device or allocator call of a constructor fails: .expect(..) panics.
\* allocate_image and allocate_buffer run with the MutexGuard alive, which
\* the unwinding drops: the Mutex is poisoned.
UploadConstructFails ==
    /\ ~panicked /\ upload_pc # <<>>
    /\ Head(upload_pc).op \in FallibleSteps
    /\ panicked' = TRUE
    /\ allocator_mutex' =
         IF Head(upload_pc).op \in AllocateSteps
         THEN [allocator_mutex EXCEPT !.poisoned = TRUE]
         ELSE allocator_mutex
    /\ UNCHANGED <<upload_fn, upload_pc, upload_steps, uploads, objects,
                   immediate_fence, immediate_command_buffer,
                   immediate_queue, drop_pc, aborted>>
    /\ UNCHANGED <<allocVars, frameVars, restVars>>

\* The constructor returns the wrapper value: Self { .. }.
UploadSelf ==
    /\ ~panicked /\ AtOp("Self")
    /\ objects' = [objects EXCEPT ![Head(upload_pc).obj].wrapper = TRUE]
    /\ Advance
    /\ UNCHANGED <<upload_fn, uploads, immediate_fence,
                   immediate_command_buffer, immediate_queue, panicked>>
    /\ UNCHANGED <<allocVars, frameVars, dropVars, restVars>>

\* staging_buffer.copy_from_slice(..): the staging buffer is CpuToGpu.
UploadCopyFromSlice ==
    /\ ~panicked /\ AtOp("copy_from_slice")
    /\ objects[Head(upload_pc).obj].wrapper
    /\ Advance
    /\ UNCHANGED <<upload_fn, uploads, objects, immediate_fence,
                   immediate_command_buffer, immediate_queue, panicked>>
    /\ UNCHANGED <<allocVars, frameVars, dropVars, restVars>>

\* self.device.reset_fence(&self.fence)
ImmediateResetFence ==
    /\ ~panicked /\ AtOp("reset_fence")
    /\ immediate_fence' = reset_fence(immediate_fence)
    /\ Advance
    /\ UNCHANGED <<upload_fn, uploads, objects, immediate_command_buffer,
                   immediate_queue, panicked>>
    /\ UNCHANGED <<allocVars, frameVars, dropVars, restVars>>

\* self.device.reset_command_buffer(self.command_buffer)
ImmediateResetCommandBuffer ==
    /\ ~panicked /\ AtOp("reset_command_buffer")
    /\ immediate_command_buffer' = [state |-> "initial", reads |-> {}]
    /\ Advance
    /\ UNCHANGED <<upload_fn, uploads, objects, immediate_fence,
                   immediate_queue, panicked>>
    /\ UNCHANGED <<allocVars, frameVars, dropVars, restVars>>

\* begin_command_buffer(self.command_buffer, ONE_TIME_SUBMIT)
ImmediateBeginCommandBuffer ==
    /\ ~panicked /\ AtOp("begin_command_buffer")
    /\ immediate_command_buffer' =
         [immediate_command_buffer EXCEPT !.state = "recording"]
    /\ Advance
    /\ UNCHANGED <<upload_fn, uploads, objects, immediate_fence,
                   immediate_queue, panicked>>
    /\ UNCHANGED <<allocVars, frameVars, dropVars, restVars>>

\* commands(&self.device, self.command_buffer): the closure records a copy
\* that reads the staging buffer.
ImmediateCommands ==
    /\ ~panicked /\ AtOp("commands")
    /\ immediate_command_buffer' =
         [immediate_command_buffer EXCEPT !.reads = {"staging_buffer"}]
    /\ Advance
    /\ UNCHANGED <<upload_fn, uploads, objects, immediate_fence,
                   immediate_queue, panicked>>
    /\ UNCHANGED <<allocVars, frameVars, dropVars, restVars>>

\* self.device.end_command_buffer(self.command_buffer)
ImmediateEndCommandBuffer ==
    /\ ~panicked /\ AtOp("end_command_buffer")
    /\ immediate_command_buffer' =
         [immediate_command_buffer EXCEPT !.state = "executable"]
    /\ Advance
    /\ UNCHANGED <<upload_fn, uploads, objects, immediate_fence,
                   immediate_queue, panicked>>
    /\ UNCHANGED <<allocVars, frameVars, dropVars, restVars>>

\* self.device.submit_to_graphics_queue(submit_info, self.fence)
ImmediateSubmit ==
    /\ ~panicked /\ AtOp("submit")
    /\ immediate_queue' = Append(immediate_queue,
                                 [reads |-> immediate_command_buffer.reads])
    /\ immediate_command_buffer' =
         [immediate_command_buffer EXCEPT !.state = "pending"]
    /\ Advance
    /\ UNCHANGED <<upload_fn, uploads, objects, immediate_fence, panicked>>
    /\ UNCHANGED <<allocVars, frameVars, dropVars, restVars>>

\* self.device.wait_for_fence(&self.fence, u64::MAX) returns.
ImmediateWaitFence ==
    /\ ~panicked /\ AtOp("wait_for_fence")
    /\ wait_for_fence(immediate_fence)
    /\ Advance
    /\ UNCHANGED <<upload_fn, uploads, objects, immediate_fence,
                   immediate_command_buffer, immediate_queue, panicked>>
    /\ UNCHANGED <<allocVars, frameVars, dropVars, restVars>>

\* A device call of immediate_submit fails: .expect(..) panics.
ImmediateFails ==
    /\ ~panicked /\ upload_pc # <<>>
    /\ Head(upload_pc).obj = "immediate"
    /\ Head(upload_pc).op \in ImmediateFallible
    /\ panicked' = TRUE
    /\ UNCHANGED <<upload_fn, upload_pc, upload_steps, uploads, objects,
                   immediate_fence, immediate_command_buffer,
                   immediate_queue>>
    /\ UNCHANGED <<allocVars, frameVars, dropVars, restVars>>

\* The staging buffer goes out of scope at the end of the function: its
\* Drop::drop is entered.
UploadDrop ==
    /\ ~panicked /\ AtOp("drop")
    /\ objects' = [objects EXCEPT ![Head(upload_pc).obj].dropped = TRUE]
    /\ drop_pc' = Destruct(Head(upload_pc).obj)
    /\ Advance
    /\ UNCHANGED <<upload_fn, uploads, immediate_fence,
                   immediate_command_buffer, immediate_queue, panicked,
                   allocator_mutex, aborted>>
    /\ UNCHANGED <<allocVars, frameVars, restVars>>

\* The unwinding of a panic drops the wrapper locals of the call, the last
\* declared first.
UploadUnwind ==
    /\ panicked /\ ~aborted /\ upload_pc # <<>> /\ drop_pc = <<>>
    /\ LET locals == Locals(upload_fn)
           undropped == {i \in 1..Len(locals) :
                      /\ objects[locals[i]].wrapper
                      /\ ~objects[locals[i]].dropped}
       IN  /\ undropped # {}
           /\ LET o == locals[CHOOSE i \in undropped : \A k \in undropped : k <= i]
              IN  /\ objects' = [objects EXCEPT ![o].dropped = TRUE]
                  /\ drop_pc' = Destruct(o)
    /\ UNCHANGED <<upload_fn, upload_pc, upload_steps, uploads,
                   immediate_fence, immediate_command_buffer,
                   immediate_queue, panicked, allocator_mutex, aborted>>
    /\ UNCHANGED <<allocVars, frameVars, restVars>>

\* The owner of a wrapper a call has returned (the renderer, a MeshAsset)
\* drops it: its Drop::drop is entered.
OwnerDrop ==
    /\ ~panicked /\ upload_pc = <<>> /\ drop_pc = <<>>
    /\ \E o \in ObjectNames :
         /\ objects[o].wrapper /\ ~objects[o].dropped
         /\ objects' = [objects EXCEPT ![o].dropped = TRUE]
         /\ drop_pc' = Destruct(o)
    /\ UNCHANGED <<upload_fn, upload_pc, upload_steps, uploads,
                   immediate_fence, immediate_command_buffer,
                   immediate_queue, panicked, allocator_mutex, aborted>>
    /\ UNCHANGED <<allocVars, frameVars, restVars>>

\* The statement of Drop::drop about to be executed.
AtDrop(ops) == ~aborted /\ drop_pc # <<>> /\ Head(drop_pc).op \in ops

\* self.device.destroy_image_view(self.image_view)
DropDestroyImageView ==
    /\ AtDrop({"destroy_image_view"})
    /\ objects' = [objects EXCEPT ![Head(drop_pc).obj].undone =
                     Append(@, Head(drop_pc).op)]
    /\ drop_pc' = Tail(drop_pc)
    /\ UNCHANGED <<upload_fn, upload_pc, upload_steps, uploads,
                   immediate_fence, immediate_command_buffer,
                   immediate_queue, panicked, allocator_mutex, aborted>>
    /\ UNCHANGED <<allocVars, frameVars, restVars>>

\* self.allocator.lock().expect(..).free_allocation(self.allocation.take()
\* .expect(..)): the lock is taken and released within the statement; an
\* allocation field that is None panics.
DropFreeAllocation ==
    /\ AtDrop({"free_allocation"})
    /\ ~allocator_mutex.poisoned
    /\ LET o == Head(drop_pc).obj
           taken == take(objects[o].allocation)
       IN  IF taken.value = None
           THEN /\ panicked' = TRUE
                /\ aborted' = panicked
                /\ drop_pc' = <<>>
                /\ allocator_mutex' =
                     [allocator_mutex EXCEPT !.poisoned = TRUE]
                /\ UNCHANGED objects
           ELSE /\ objects' = [objects EXCEPT
                                ![o].allocation = taken.left,
                                ![o].frees = @ + 1,
                                ![o].undone = Append(@, Head(drop_pc).op)]
                /\ drop_pc' = Tail(drop_pc)
                /\ UNCHANGED <<panicked, aborted, allocator_mutex>>
    /\ UNCHANGED <<upload_fn, upload_pc, upload_steps, uploads,
                   immediate_fence, immediate_command_buffer,
                   immediate_queue>>
    /\ UNCHANGED <<allocVars, frameVars, restVars>>

\* lock() on a poisoned Mutex returns Err and .expect(..) panics before
\* free_allocation is called; a panic while a panic is unwinding aborts the
\* process.
DropLockPoisoned ==
    /\ AtDrop({"free_allocation"})
    /\ allocator_mutex.poisoned
    /\ panicked' = TRUE
    /\ aborted' = panicked
    /\ drop_pc' = <<>>
    /\ UNCHANGED <<upload_fn, upload_pc, upload_steps, uploads, objects,
                   immediate_fence, immediate_command_buffer,
                   immediate_queue, allocator_mutex>>
    /\ UNCHANGED <<allocVars, frameVars, restVars>>

\* self.device.destroy_image(self.image) / destroy_buffer(self.buffer)
DropDestroyHandle ==
    /\ AtDrop({"destroy_image", "destroy_buffer"})
    /\ objects' = [objects EXCEPT
                     ![Head(drop_pc).obj].undone = Append(@, Head(drop_pc).op),
                     ![Head(drop_pc).obj].destroyed = TRUE]
    /\ drop_pc' = Tail(drop_pc)
    /\ UNCHANGED <<upload_fn, upload_pc, upload_steps, uploads,
                   immediate_fence, immediate_command_buffer,
                   immediate_queue, panicked, allocator_mutex, aborted>>
    /\ UNCHANGED <<allocVars, frameVars, restVars>>

\* The GPU retires the oldest immediate submission: its command buffer has
\* executed and the fence of ImmediateCommandData is signaled.
ImmediateGpuComplete ==
    /\ immediate_queue # <<>>
    /\ immediate_queue' = Tail(immediate_queue)
    /\ immediate_fence' = "signaled"
    /\ immediate_command_buffer' =
         [immediate_command_buffer EXCEPT !.state = "invalid"]
    /\ UNCHANGED <<upload_fn, upload_pc, upload_steps, uploads, objects,
                   panicked>>
    /\ UNCHANGED <<allocVars, frameVars, dropVars, restVars>>

UploadNext ==
    \/ UploadStart
    \/ UploadConstruct
    \/ UploadConstructFails
    \/ UploadSelf
    \/ UploadCopyFromSlice
    \/ ImmediateResetFence
    \/ ImmediateResetCommandBuffer
    \/ ImmediateBeginCommandBuffer
    \/ ImmediateCommands
    \/ ImmediateEndCommandBuffer
    \/ ImmediateSubmit
    \/ ImmediateWaitFence
    \/ ImmediateFails
    \/ UploadDrop
    \/ UploadUnwind
    \/ OwnerDrop
    \/ DropDestroyImageView
    \/ DropFreeAllocation
    \/ DropLockPoisoned
    \/ DropDestroyHandle
    \/ ImmediateGpuComplete

UploadSpec == UploadInit /\ [][UploadNext]_vars

\* ---------------------------------------------------------------- teardown
\* The renderer's fields are dropped, in any order: each drop runs the
\* type's Drop::drop, which destroys its device objects, and then drops the
\* fields of the value in declaration order.
Glue(type) ==
    (IF type \in DeviceObjects \cup Arcs
     THEN <<[op |-> "drop", type |-> type]>> ELSE <<>>)
    \o [i \in 1..Len(FieldsOf(type)) |->
          [op |-> "field", type |-> FieldsOf(type)[i]]]

AtTeardown(op) == teardown_pc # <<>> /\ Head(teardown_pc).op = op

\* A field of the renderer goes out of scope.
TeardownDropField ==
    /\ teardown_pc = <<>>
    /\ \E f \in renderer_fields :
         /\ renderer_fields' = renderer_fields \ {f}
         /\ teardown_pc' = Glue(TypeOf(f))
    /\ UNCHANGED <<live, device_strong, allocator_strong, device_handle>>
    /\ UNCHANGED <<allocVars, panicked, frameVars, upload_fn, upload_pc,
                   upload_steps, uploads, objects, immediate_fence,
                   immediate_command_buffer, immediate_queue, dropVars,
                   threadVars, copyVars, textureVars,
                   moreVars>>

\* A field of the value being dropped is dropped in its turn.
TeardownField ==
    /\ AtTeardown("field")
    /\ teardown_pc' = Glue(Head(teardown_pc).type) \o Tail(teardown_pc)
    /\ UNCHANGED <<renderer_fields, live, device_strong, allocator_strong,
                   device_handle>>
    /\ UNCHANGED <<allocVars, panicked, frameVars, upload_fn, upload_pc,
                   upload_steps, uploads, objects, immediate_fence,
                   immediate_command_buffer, immediate_queue, dropVars,
                   threadVars, copyVars, textureVars,
                   moreVars>>

\* Drop::drop of a type that owns device objects destroys them.
TeardownDestroy ==
    /\ AtTeardown("drop")
    /\ Head(teardown_pc).type \in DeviceObjects
    /\ live' = [live EXCEPT ![Head(teardown_pc).type] = @ - 1]
    /\ teardown_pc' = Tail(teardown_pc)
    /\ UNCHANGED <<renderer_fields, device_strong, allocator_strong,
                   device_handle>>
    /\ UNCHANGED <<allocVars, panicked, frameVars, upload_fn, upload_pc,
                   upload_steps, uploads, objects, immediate_fence,
                   immediate_command_buffer, immediate_queue, dropVars,
                   threadVars, copyVars, textureVars,
                   moreVars>>

\* An Arc<Device> is dropped; the last one drops the Device, whose
\* Drop::drop destroys the logical device.
TeardownDropArcDevice ==
    /\ AtTeardown("drop")
    /\ Head(teardown_pc).type = "Arc<Device>"
    /\ device_strong' = drop_arc(device_strong).strong
    /\ device_handle' = IF drop_arc(device_strong).last
                        THEN "destroyed" ELSE device_handle
    /\ teardown_pc' = Tail(teardown_pc)
    /\ UNCHANGED <<renderer_fields, live, allocator_strong>>
    /\ UNCHANGED <<allocVars, panicked, frameVars, upload_fn, upload_pc,
                   upload_steps, uploads, objects, immediate_fence,
                   immediate_command_buffer, immediate_queue, dropVars,
                   threadVars, copyVars, textureVars,
                   moreVars>>

\* An Arc<Mutex<Allocator>> is dropped; the last one drops the Allocator:
\* its gpu_allocator and then its Arc<Device>.
TeardownDropArcAllocator ==
    /\ AtTeardown("drop")
    /\ Head(teardown_pc).type = "Arc<Mutex<Allocator>>"
    /\ allocator_strong' = drop_arc(allocator_strong).strong
    /\ teardown_pc' =
         (IF drop_arc(allocator_strong).last THEN Glue("Allocator") ELSE <<>>)
         \o Tail(teardown_pc)
    /\ UNCHANGED <<renderer_fields, live, device_strong, device_handle>>
    /\ UNCHANGED <<allocVars, panicked, frameVars, upload_fn, upload_pc,
                   upload_steps, uploads, objects, immediate_fence,
                   immediate_command_buffer, immediate_queue, dropVars,
                   threadVars, copyVars, textureVars,
                   moreVars>>

TeardownNext ==
    \/ TeardownDropField
    \/ TeardownField
    \/ TeardownDestroy
    \/ TeardownDropArcDevice
    \/ TeardownDropArcAllocator

TeardownSpec == UploadInit /\ [][TeardownNext]_vars

\* ----------------------------------------------------------------- threads
\* Several threads run new_texture / upload_mesh and drop what they built,
\* all on one Arc<Mutex<Allocator>>; each has its own ImmediateCommandData.
\* `allocator.lock().expect(..).allocate_image(..)` takes the lock, makes the
\* call and drops the MutexGuard at the end of the statement.
LockedCalls == AllocateSteps \cup {"free_allocation"}

\* A call on the Allocator with the lock() before it and the drop of the
\* guard after it.
Guarded(st) == <<Stmt("lock", st.obj), st, Stmt("unlock", st.obj)>>

\* The statements of a body with the drops and the lock() calls spelled out.
RECURSIVE Expand(_)
Expand(body) ==
    IF body = <<>> THEN <<>>
    ELSE LET st == Head(body)
         IN  (CASE st.op \in LockedCalls -> Guarded(st)
                [] st.op = "drop" -> Expand(Destruct(st.obj))
                [] OTHER -> <<st>>)
             \o Expand(Tail(body))

\* The wrappers a call returns, in the order their owner drops them.
Returned(fn) ==
    IF fn = "new_texture" THEN <<"image">>
    ELSE <<"index_buffer", "vertex_buffer">>

\* What a thread runs: the call, then the drop of what it returned.
ThreadFn(t) == IF t % 2 = 1 THEN "new_texture" ELSE "upload_mesh"
ThreadBody(t) ==
    Expand(Body(ThreadFn(t))
           \o [i \in 1..Len(Returned(ThreadFn(t))) |->
                 Stmt("drop", Returned(ThreadFn(t))[i])])

ThreadAt(t, ops) == thread_pc[t] # <<>> /\ Head(thread_pc[t]).op \in ops
ThreadAdvance(t) == thread_pc' = [thread_pc EXCEPT ![t] = Tail(@)]

\* Variant of can_lock: lock() returns at once whoever holds the Mutex.
can_lock_always(mutex) == TRUE

\* Mutex::lock returns only while no thread holds the Mutex.
can_lock(mutex) == mutex.holder = None

ThreadStart ==
    /\ \E t \in Threads :
         /\ thread_state[t] = "new"
         /\ thread_state' = [thread_state EXCEPT ![t] = "running"]
         /\ thread_pc' = [thread_pc EXCEPT ![t] = ThreadBody(t)]
    /\ UNCHANGED <<thread_fence, thread_pending>>
    /\ UNCHANGED <<allocVars, panicked, frameVars, upload_fn, upload_pc,
                   upload_steps, uploads, objects, immediate_fence,
                   immediate_command_buffer, immediate_queue, dropVars,
                   teardownVars, copyVars, textureVars,
                   moreVars>>

\* allocator.lock(): the thread blocks until the Mutex is free.
ThreadLock ==
    /\ \E t \in Threads :
         /\ ThreadAt(t, {"lock"})
         /\ ~allocator_mutex.poisoned
         /\ can_lock(allocator_mutex)
         /\ allocator_mutex' = [allocator_mutex EXCEPT !.holder = {t}]
         /\ ThreadAdvance(t)
    /\ UNCHANGED <<thread_state, thread_fence, thread_pending>>
    /\ UNCHANGED <<allocVars, panicked, frameVars, upload_fn, upload_pc,
                   upload_steps, uploads, objects, immediate_fence,
                   immediate_command_buffer, immediate_queue, drop_pc,
                   aborted,
                   teardownVars, copyVars, textureVars,
                   moreVars>>

\* lock() on a poisoned Mutex returns Err: .expect(..) panics.
ThreadLockPoisoned ==
    /\ \E t \in Threads :
         /\ ThreadAt(t, {"lock"})
         /\ allocator_mutex.poisoned
         /\ can_lock(allocator_mutex)
         /\ thread_state' = [thread_state EXCEPT ![t] = "panicked"]
         /\ thread_pc' = [thread_pc EXCEPT ![t] = <<>>]
    /\ UNCHANGED <<thread_fence, thread_pending>>
    /\ UNCHANGED <<allocVars, panicked, frameVars, upload_fn, upload_pc,
                   upload_steps, uploads, objects, immediate_fence,
                   immediate_command_buffer, immediate_queue, dropVars,
                   teardownVars, copyVars, textureVars,
                   moreVars>>

\* allocate_image / allocate_buffer / free_allocation runs on the
\* sub-allocator and returns.
ThreadAllocatorCall ==
    /\ \E t \in Threads :
         /\ ThreadAt(t, LockedCalls)
         /\ ThreadAdvance(t)
    /\ UNCHANGED <<thread_state, thread_fence, thread_pending>>
    /\ UNCHANGED <<allocVars, panicked, frameVars, upload_fn, upload_pc,
                   upload_steps, uploads, objects, immediate_fence,
                   immediate_command_buffer, immediate_queue, dropVars,
                   teardownVars, copyVars, textureVars,
                   moreVars>>

\* The call on the sub-allocator fails: .expect(..) panics, and the
\* unwinding drops the MutexGuard, which poisons the Mutex.  The thread's
\* unwinding touches the Allocator no more: every drop it runs stops at
\* lock() on the poisoned Mutex.
ThreadAllocatorCallFails ==
    /\ \E t \in Threads :
         /\ ThreadAt(t, LockedCalls)
         /\ thread_state' = [thread_state EXCEPT ![t] = "panicked"]
         /\ thread_pc' = [thread_pc EXCEPT ![t] = <<>>]
         /\ allocator_mutex' =
              [holder |-> allocator_mutex.holder \ {t}, poisoned |-> TRUE]
    /\ UNCHANGED <<thread_fence, thread_pending>>
    /\ UNCHANGED <<allocVars, panicked, frameVars, upload_fn, upload_pc,
                   upload_steps, uploads, objects, immediate_fence,
                   immediate_command_buffer, immediate_queue, drop_pc,
                   aborted,
                   teardownVars, copyVars, textureVars,
                   moreVars>>

\* The statement ends: the MutexGuard temporary is dropped.
ThreadUnlock ==
    /\ \E t \in Threads :
         /\ ThreadAt(t, {"unlock"})
         /\ allocator_mutex' =
              [allocator_mutex EXCEPT !.holder = @ \ {t}]
         /\ ThreadAdvance(t)
    /\ UNCHANGED <<thread_state, thread_fence, thread_pending>>
    /\ UNCHANGED <<allocVars, panicked, frameVars, upload_fn, upload_pc,
                   upload_steps, uploads, objects, immediate_fence,
                   immediate_command_buffer, immediate_queue, drop_pc,
                   aborted,
                   teardownVars, copyVars, textureVars,
                   moreVars>>

\* immediate_submit: self.device.reset_fence(&self.fence)
ThreadResetFence ==
    /\ \E t \in Threads :
         /\ ThreadAt(t, {"reset_fence"})
         /\ thread_fence' = [thread_fence EXCEPT ![t] = reset_fence(@)]
         /\ ThreadAdvance(t)
    /\ UNCHANGED <<thread_state, thread_pending>>
    /\ UNCHANGED <<allocVars, panicked, frameVars, upload_fn, upload_pc,
                   upload_steps, uploads, objects, immediate_fence,
                   immediate_command_buffer, immediate_queue, dropVars,
                   teardownVars, copyVars, textureVars,
                   moreVars>>

\* immediate_submit: submit_to_graphics_queue(submit_info, self.fence)
ThreadSubmit ==
    /\ \E t \in Threads :
         /\ ThreadAt(t, {"submit"})
         /\ thread_pending' = [thread_pending EXCEPT ![t] = TRUE]
         /\ ThreadAdvance(t)
    /\ UNCHANGED <<thread_state, thread_fence>>
    /\ UNCHANGED <<allocVars, panicked, frameVars, upload_fn, upload_pc,
                   upload_steps, uploads, objects, immediate_fence,
                   immediate_command_buffer, immediate_queue, dropVars,
                   teardownVars, copyVars, textureVars,
                   moreVars>>

\* immediate_submit: wait_for_fence(&self.fence, u64::MAX) returns.
ThreadWaitFence ==
    /\ \E t \in Threads :
         /\ ThreadAt(t, {"wait_for_fence"})
         /\ wait_for_fence(thread_fence[t])
         /\ ThreadAdvance(t)
    /\ UNCHANGED <<thread_state, thread_fence, thread_pending>>
    /\ UNCHANGED <<allocVars, panicked, frameVars, upload_fn, upload_pc,
                   upload_steps, uploads, objects, immediate_fence,
                   immediate_command_buffer, immediate_queue, dropVars,
                   teardownVars, copyVars, textureVars,
                   moreVars>>

\* Any other statement: device calls and CPU work of the thread itself.
ThreadLocal ==
    /\ \E t \in Threads :
         /\ thread_pc[t] # <<>>
         /\ ~ThreadAt(t, LockedCalls \cup {"lock", "unlock", "reset_fence",
                                           "submit", "wait_for_fence"})
         /\ ThreadAdvance(t)
    /\ UNCHANGED <<thread_state, thread_fence, thread_pending>>
    /\ UNCHANGED <<allocVars, panicked, frameVars, upload_fn, upload_pc,
                   upload_steps, uploads, objects, immediate_fence,
                   immediate_command_buffer, immediate_queue, dropVars,
                   teardownVars, copyVars, textureVars,
                   moreVars>>

\* The GPU retires a thread's submission and signals its fence.
ThreadGpuComplete ==
    /\ \E t \in Threads :
         /\ thread_pending[t]
         /\ thread_pending' = [thread_pending EXCEPT ![t] = FALSE]
         /\ thread_fence' = [thread_fence EXCEPT ![t] = "signaled"]
    /\ UNCHANGED <<thread_pc, thread_state>>
    /\ UNCHANGED <<allocVars, panicked, frameVars, upload_fn, upload_pc,
                   upload_steps, uploads, objects, immediate_fence,
                   immediate_command_buffer, immediate_queue, dropVars,
                   teardownVars, copyVars, textureVars,
                   moreVars>>

ThreadNext ==
    \/ ThreadStart
    \/ ThreadLock
    \/ ThreadLockPoisoned
    \/ ThreadAllocatorCall
    \/ ThreadAllocatorCallFails
    \/ ThreadUnlock
    \/ ThreadResetFence
    \/ ThreadSubmit
    \/ ThreadWaitFence
    \/ ThreadLocal
    \/ ThreadGpuComplete

ThreadSpec == UploadInit /\ [][ThreadNext]_vars

\* ---------------------------------------------------------- copy_from_slice
\* An AllocatedBuffer of any placement, written through copy_from_slice with
\* any offset and any slice of one- or two-byte elements.
MemoryLocations == {"Unknown", "GpuOnly", "CpuToGpu", "GpuToCpu"}
ElementSizes == {1, 2}
Slices == {<<1>>, <<2>>, <<1, 2>>, <<2, 1>>}

\* AllocatedBuffer::new: cpu_accesible is location == CpuToGpu.
AllocatedBuffer_new(location) ==
    [location |-> location,
     cpu_accesible |-> location = "CpuToGpu",
     allocation |-> {"allocation"},
     memory |-> [i \in 1..MaxBufferSize |-> 0]]

\* The bytes of a slice whose elements are size_of bytes each.
RECURSIVE BytesOf(_, _)
BytesOf(data, size_of) ==
    IF data = <<>> THEN <<>>
    ELSE [k \in 1..size_of |-> Head(data)] \o BytesOf(Tail(data), size_of)

\* presser::copy_from_slice_to_offset: the copy starts at the first offset
\* not below start_offset that is aligned for the element type, and fails
\* when it would run past the end of the allocation.
copy_from_slice_to_offset(data, size_of, memory, start_offset) ==
    LET start == ((start_offset + size_of - 1) \div size_of) * size_of
        bytes == BytesOf(data, size_of)
    IN  IF start + Len(bytes) > Len(memory)
        THEN [err |-> TRUE, memory |-> memory, copy_start_offset |-> start]
        ELSE [err |-> FALSE,
              memory |-> [i \in 1..Len(memory) |->
                            IF i > start /\ i <= start + Len(bytes)
                            THEN bytes[i - start] ELSE memory[i]],
              copy_start_offset |-> start]

\* Variant of copy_from_slice: without the check of cpu_accesible.
copy_from_slice_unchecked(self, data, size_of, offset) ==
    LET copy_record ==
          copy_from_slice_to_offset(data, size_of, self.memory, offset)
    IN  [outcome |-> IF copy_record.err \/ copy_record.copy_start_offset # offset
                     THEN "panic" ELSE "returned",
         self |-> [self EXCEPT !.memory = copy_record.memory]]

\* AllocatedBuffer::copy_from_slice
copy_from_slice(self, data, size_of, offset) ==
    IF ~self.cpu_accesible
    THEN [outcome |-> "panic", self |-> self]
    ELSE IF self.allocation = None
    THEN [outcome |-> "returned", self |-> self]
    ELSE LET copy_record ==
               copy_from_slice_to_offset(data, size_of, self.memory, offset)
         IN  IF copy_record.err
             THEN [outcome |-> "panic", self |-> self]
             ELSE IF copy_record.copy_start_offset # offset
             THEN [outcome |-> "panic",
                   self |-> [self EXCEPT !.memory = copy_record.memory]]
             ELSE [outcome |-> "returned",
                   self |-> [self EXCEPT !.memory = copy_record.memory]]

BufferNew ==
    /\ ~panicked /\ buffer = NoBuffer
    /\ \E location \in MemoryLocations :
         buffer' = AllocatedBuffer_new(location)
    /\ UNCHANGED <<copy_call, panicked>>
    /\ UNCHANGED <<allocVars, frameVars, upload_fn, upload_pc, upload_steps,
                   uploads, objects, immediate_fence, immediate_command_buffer,
                   immediate_queue, dropVars, teardownVars, threadVars,
                   textureVars,
                   moreVars>>

CopyFromSlice ==
    /\ ~panicked /\ buffer # NoBuffer
    /\ \E data \in Slices, size_of \in ElementSizes, offset \in 0..MaxBufferSize :
         LET result == copy_from_slice(buffer, data, size_of, offset)
         IN  /\ buffer' = result.self
             /\ copy_call' = [op |-> "copy_from_slice", pre |-> buffer,
                              data |-> data, size_of |-> size_of,
                              offset |-> offset, outcome |-> result.outcome]
             /\ panicked' = (result.outcome = "panic")
    /\ UNCHANGED <<allocVars, frameVars, upload_fn, upload_pc, upload_steps,
                   uploads, objects, immediate_fence, immediate_command_buffer,
                   immediate_queue, dropVars, teardownVars, threadVars,
                   textureVars,
                   moreVars>>

CopyNext ==
    \/ BufferNew
    \/ CopyFromSlice

CopySpec == UploadInit /\ [][CopyNext]_vars

\* ----------------------------------------------------------- mip level count
\* AllocatedImage::allocate_texture computes the mip level count in f32:
\* f32::floor(f32::log2(u32::max(width, height) as f32)) as u32 + 1.
\* Extents: every small one, and sizes around the powers of two up to where
\* f32 stops holding every integer.
SmallExtents == 1..MaxSmallExtent
LargeExtents ==
    {255, 256, 511, 512, 513, 1023, 1024, 4096, 16384, 65535, 65536,
     1048575, 1048576, 2097151, 2097152, 4194303, 16777215, 16777216,
     16777217, 33554431}
Widths == SmallExtents \cup LargeExtents
Heights == {1, 2, 3, 256, 512, 2097151}

RECURSIVE Pow2(_)
Pow2(n) == IF n = 0 THEN 1 ELSE 2 * Pow2(n - 1)
\* floor(log2(n)) and ceil(log2(n)) of an integer n >= 1.
RECURSIVE FloorLog2(_)
FloorLog2(n) == IF n < 2 THEN 0 ELSE 1 + FloorLog2(n \div 2)
CeilLog2(n) == IF Pow2(FloorLog2(n)) = n THEN FloorLog2(n) ELSE FloorLog2(n) + 1

u32_max(a, b) == IF a >= b THEN a ELSE b

\* `n as f32`: the nearest value with a 24-bit significand, ties to even.
as_f32(n) ==
    IF n < Pow2(24) THEN n
    ELSE LET q == Pow2(FloorLog2(n) - 23)
             r == n % q
             base == n - r
         IN  IF 2 * r > q \/ (2 * r = q /\ (base \div q) % 2 = 1)
             THEN base + q ELSE base

\* f32::floor(f32::log2(x)) for an integer-valued x >= 1, the logarithm
\* rounded to the nearest f32.  With 2^k <= x < 2^(k+1) the rounded
\* logarithm is k + 1 when x is within 2^(k+1) * h * ln 2 of 2^(k+1), h being
\* half the distance from k + 1 down to the next f32, 2^(ceil(log2(k+1)) - 25);
\* ln 2 is taken as 693/1000.
f32_log2_floor(x) ==
    LET k == FloorLog2(x)
        d == Pow2(k + 1) - x
        e == (k + 1) + CeilLog2(k + 1) - 25
    IN  IF e >= 1 /\ d <= Pow2(e) /\ d * 1000 <= 693 * Pow2(e)
        THEN k + 1 ELSE k

\* allocate_texture: the mip level count passed to AllocatedImage::new.
mip_levels(width, height, mip_mapped) ==
    IF mip_mapped
    THEN f32_log2_floor(as_f32(u32_max(width, height))) + 1
    ELSE 1

\* A caller passes an extent and the mip-mapping flag.
AllocateTextureCall ==
    /\ texture_call = NoCall
    /\ \E width \in Widths, height \in Heights, mip_mapped \in BOOLEAN :
         texture_call' = [op |-> "call", width |-> width, height |-> height,
                          mip_mapped |-> mip_mapped, mip_levels |-> 0]
    /\ UNCHANGED <<pack_call, checkerboard, loop_i, loop_j>>
    /\ UNCHANGED <<allocVars, panicked, frameVars, upload_fn, upload_pc,
                   upload_steps, uploads, objects, immediate_fence,
                   immediate_command_buffer, immediate_queue, dropVars,
                   teardownVars, threadVars, copyVars,
                   moreVars>>

AllocateTexture ==
    /\ texture_call.op = "call"
    /\ texture_call' =
         [texture_call EXCEPT
            !.op = "allocate_texture",
            !.mip_levels = mip_levels(texture_call.width, texture_call.height,
                                      texture_call.mip_mapped)]
    /\ UNCHANGED <<pack_call, checkerboard, loop_i, loop_j>>
    /\ UNCHANGED <<allocVars, panicked, frameVars, upload_fn, upload_pc,
                   upload_steps, uploads, objects, immediate_fence,
                   immediate_command_buffer, immediate_queue, dropVars,
                   teardownVars, threadVars, copyVars,
                   moreVars>>

MipNext == AllocateTextureCall \/ AllocateTexture

MipSpec == UploadInit /\ [][MipNext]_vars

\* ------------------------------------------------------------ pack_unorm4x8
\* Channel values are numerators over ChannelDenominator, so that the value,
\* its product with 255 and the rounding are exact in f32: below 0, 0, 1/256,
\* 1/4, 1/2 (which rounds from 127.5), 255/256, 1 and above 1.  NaN channels
\* are not modelled.
ChannelDenominator == 256
Channels == {-64, 0, 1, 64, 128, 255, 256, 320}

\* A u32 as its 32 bits, least significant first.
u32(n) == [i \in 1..32 |-> IF i > 31 THEN 0 ELSE (n \div Pow2(i - 1)) % 2]
shl(word, k) == [i \in 1..32 |-> IF i > k THEN word[i - k] ELSE 0]
bit_or(x, y) == [i \in 1..32 |-> IF x[i] = 1 \/ y[i] = 1 THEN 1 ELSE 0]

\* f32::clamp(0.0, 1.0) on a numerator.
clamp(c) ==
    IF c < 0 THEN 0 ELSE IF c > ChannelDenominator THEN ChannelDenominator ELSE c
\* (c.clamp(0.0, 1.0) * 255.0).round() as u32: f32::round rounds half away
\* from zero, and the clamped value is never negative.
channel(c) == (2 * 255 * clamp(c) + ChannelDenominator) \div (2 * ChannelDenominator)

\* Variant of pack_unorm4x8: the channels shifted in the opposite order.
pack_unorm4x8_reversed(vec) ==
    LET r == u32(channel(vec[1]))
        g == u32(channel(vec[2]))
        b == u32(channel(vec[3]))
        a == u32(channel(vec[4]))
    IN  bit_or(bit_or(bit_or(shl(r, 24), shl(g, 16)), shl(b, 8)), shl(a, 0))

pack_unorm4x8(vec) ==
    LET r == u32(channel(vec[1]))
        g == u32(channel(vec[2]))
        b == u32(channel(vec[3]))
        a == u32(channel(vec[4]))
    IN  bit_or(bit_or(bit_or(shl(r, 0), shl(g, 8)), shl(b, 16)), shl(a, 24))

\* A caller passes a colour.
PackUnorm4x8Call ==
    /\ pack_call = NoCall
    /\ \E vec \in [1..4 -> Channels] :
         pack_call' = [op |-> "call", vec |-> vec, result |-> u32(0)]
    /\ UNCHANGED <<texture_call, checkerboard, loop_i, loop_j>>
    /\ UNCHANGED <<allocVars, panicked, frameVars, upload_fn, upload_pc,
                   upload_steps, uploads, objects, immediate_fence,
                   immediate_command_buffer, immediate_queue, dropVars,
                   teardownVars, threadVars, copyVars,
                   moreVars>>

PackUnorm4x8 ==
    /\ pack_call.op = "call"
    /\ pack_call' = [pack_call EXCEPT !.op = "pack_unorm4x8",
                                      !.result = pack_unorm4x8(pack_call.vec)]
    /\ UNCHANGED <<texture_call, checkerboard, loop_i, loop_j>>
    /\ UNCHANGED <<allocVars, panicked, frameVars, upload_fn, upload_pc,
                   upload_steps, uploads, objects, immediate_fence,
                   immediate_command_buffer, immediate_queue, dropVars,
                   teardownVars, threadVars, copyVars,
                   moreVars>>

PackNext == PackUnorm4x8Call \/ PackUnorm4x8

PackSpec == UploadInit /\ [][PackNext]_vars

\* ------------------------------------------------- the placeholder texture
\* init_default_textures fills a SIZE x SIZE array, row by row, with black
\* and magenta.
SIZE == 16
black == pack_unorm4x8(<<0, 0, 0, ChannelDenominator>>)
magenta == pack_unorm4x8(<<ChannelDenominator, 0, ChannelDenominator, ChannelDenominator>>)

\* Variant of checkerboard_texel: the parity of the array index.
checkerboard_texel_by_index(i, j) ==
    IF (i * SIZE + j) % 2 = 0 THEN black ELSE magenta

\* The value the loop body assigns to checkerboard[i * SIZE + j].
checkerboard_texel(i, j) ==
    IF (i + j) % 2 = 0 THEN black ELSE magenta

\* let mut checkerboard = [0u32; SIZE * SIZE];
CheckerboardNew ==
    /\ checkerboard = <<>>
    /\ checkerboard' = [k \in 1..(SIZE * SIZE) |-> u32(0)]
    /\ loop_i' = 0
    /\ loop_j' = 0
    /\ UNCHANGED <<texture_call, pack_call>>
    /\ UNCHANGED <<allocVars, panicked, frameVars, upload_fn, upload_pc,
                   upload_steps, uploads, objects, immediate_fence,
                   immediate_command_buffer, immediate_queue, dropVars,
                   teardownVars, threadVars, copyVars,
                   moreVars>>

\* One iteration of the inner loop (arrays of the model start at 1).
CheckerboardStep ==
    /\ checkerboard # <<>>
    /\ loop_i < SIZE
    /\ checkerboard' =
         [checkerboard EXCEPT
            ![loop_i * SIZE + loop_j + 1] = checkerboard_texel(loop_i, loop_j)]
    /\ IF loop_j + 1 < SIZE
       THEN loop_j' = loop_j + 1 /\ loop_i' = loop_i
       ELSE loop_j' = 0 /\ loop_i' = loop_i + 1
    /\ UNCHANGED <<texture_call, pack_call>>
    /\ UNCHANGED <<allocVars, panicked, frameVars, upload_fn, upload_pc,
                   upload_steps, uploads, objects, immediate_fence,
                   immediate_command_buffer, immediate_queue, dropVars,
                   teardownVars, threadVars, copyVars,
                   moreVars>>

CheckerboardNext == CheckerboardNew \/ CheckerboardStep

CheckerboardSpec == UploadInit /\ [][CheckerboardNext]_vars

\* ---------------------------------------------- the command stream of draw()
\* The commands draw() records between begin_command_buffer and
\* end_command_buffer, in program order.  A transition names the layouts
\* passed to Device::transition_image_layout; any other command names the
\* layout it declares for each image it uses.  "presentation_image" stands
\* for the image acquire_next_image returned.
Transition(image, current_layout, new_layout) ==
    [op |-> "transition_image_layout", image |-> image, old |-> current_layout,
     new |-> new_layout]
Use(op, layouts) == [op |-> op, uses |-> layouts]

\* Variant of RecordOrder: the blit is recorded before the presentable image
\* is transitioned to TRANSFER_DST_OPTIMAL.
RecordOrder_blit_first ==
    <<Transition("draw_image", "UNDEFINED", "GENERAL"),
      Use("draw_background", {<<"draw_image", "GENERAL">>}),
      Transition("draw_image", "GENERAL", "COLOR_ATTACHMENT_OPTIMAL"),
      Transition("depth_image", "UNDEFINED", "DEPTH_ATTACHMENT_OPTIMAL"),
      Use("begin_drawing", {<<"draw_image", "COLOR_ATTACHMENT_OPTIMAL">>,
                            <<"depth_image", "DEPTH_ATTACHMENT_OPTIMAL">>}),
      Use("cmd_bind_descriptor_sets", {}),
      Use("draw", {}),
      Use("end_drawing", {}),
      Transition("draw_image", "COLOR_ATTACHMENT_OPTIMAL", "TRANSFER_SRC_OPTIMAL"),
      Use("copy_image_to_image", {<<"draw_image", "TRANSFER_SRC_OPTIMAL">>,
                                  <<"presentation_image", "TRANSFER_DST_OPTIMAL">>}),
      Transition("presentation_image", "UNDEFINED", "TRANSFER_DST_OPTIMAL"),
      Transition("presentation_image", "TRANSFER_DST_OPTIMAL", "PRESENT_SRC_KHR"),
      Use("end_command_buffer", {})>>

RecordOrder ==
    <<Transition("draw_image", "UNDEFINED", "GENERAL"),
      Use("draw_background", {<<"draw_image", "GENERAL">>}),
      Transition("draw_image", "GENERAL", "COLOR_ATTACHMENT_OPTIMAL"),
      Transition("depth_image", "UNDEFINED", "DEPTH_ATTACHMENT_OPTIMAL"),
      Use("begin_drawing", {<<"draw_image", "COLOR_ATTACHMENT_OPTIMAL">>,
                            <<"depth_image", "DEPTH_ATTACHMENT_OPTIMAL">>}),
      Use("cmd_bind_descriptor_sets", {}),
      Use("draw", {}),
      Use("end_drawing", {}),
      Transition("draw_image", "COLOR_ATTACHMENT_OPTIMAL", "TRANSFER_SRC_OPTIMAL"),
      Transition("presentation_image", "UNDEFINED", "TRANSFER_DST_OPTIMAL"),
      Use("copy_image_to_image", {<<"draw_image", "TRANSFER_SRC_OPTIMAL">>,
                                  <<"presentation_image", "TRANSFER_DST_OPTIMAL">>}),
      Transition("presentation_image", "TRANSFER_DST_OPTIMAL", "PRESENT_SRC_KHR"),
      Use("end_command_buffer", {})>>

\* The image a command names, in the draw() call that acquired image i.
ImageOf(name, i) == IF name = "presentation_image" THEN <<name, i>> ELSE <<name, 0>>

\* begin_command_buffer: the recording of a draw() call starts, for the
\* image acquire_next_image returned.
RecordBegin ==
    /\ recorded # <<>> => Last(recorded).op = "end_command_buffer"
    /\ \E i \in ImageIds :
         recorded' = <<[op |-> "begin_command_buffer", presentation_image |-> i]>>
    /\ UNCHANGED image_layout
    /\ UNCHANGED <<allocVars, panicked, frameVars, upload_fn, upload_pc,
                   upload_steps, uploads, objects, immediate_fence,
                   immediate_command_buffer, immediate_queue, dropVars,
                   teardownVars, threadVars, copyVars, textureVars, pool,
                   window_event>>

\* The next command is recorded.  A transition is recorded with the layout
\* the commands before it leave its image in (found), and leaves the image
\* in its new layout; any other command is recorded with the layouts its
\* images are in.
RecordCommand ==
    /\ recorded # <<>>
    /\ Last(recorded).op # "end_command_buffer"
    /\ LET c == RecordOrder[Len(recorded)]
           i == recorded[1].presentation_image
       IN  IF c.op = "transition_image_layout"
           THEN /\ recorded' = Append(recorded,
                      [op |-> c.op, image |-> ImageOf(c.image, i), old |-> c.old,
                       new |-> c.new, found |-> image_layout[ImageOf(c.image, i)]])
                /\ image_layout' = [image_layout EXCEPT ![ImageOf(c.image, i)] = c.new]
           ELSE /\ recorded' = Append(recorded,
                      [op |-> c.op,
                       uses |-> {[image |-> ImageOf(u[1], i), layout |-> u[2],
                                  found |-> image_layout[ImageOf(u[1], i)]] : u \in c.uses}])
                /\ UNCHANGED image_layout
    /\ UNCHANGED <<allocVars, panicked, frameVars, upload_fn, upload_pc,
                   upload_steps, uploads, objects, immediate_fence,
                   immediate_command_buffer, immediate_queue, dropVars,
                   teardownVars, threadVars, copyVars, textureVars, pool,
                   window_event>>

RecordNext == RecordBegin \/ RecordCommand

RecordSpec == UploadInit /\ [][RecordNext]_vars

\* ------------------------------------------------------- DescriptorAllocator
\* The fixed allocator: one Option<vk::DescriptorPool> field.  The calls are
\* made by an owner that stops at the first panic; the value is dropped by
\* its owner or by the unwinding.

\* destroy_pool: take the pool out of the field and destroy it; panic when
\* the field is None.
destroy_pool(field, d) ==
    LET t == take(field)
    IN  IF t.value # None
        THEN [pool |-> t.left,
              d |-> DestroyEach(d, <<CHOOSE p \in t.value : TRUE>>),
              panic |-> FALSE]
        ELSE [pool |-> t.left, d |-> d, panic |-> TRUE]

\* init_pool(max_sets, ratios): self.pool = Some(create_descriptor_pool(..)).
FixedInitPool ==
    /\ ~panicked /\ ~dropped
    /\ FreeHandles(pools) # {}
    /\ \E max_sets \in 1..SmallMaxSets :
         LET c == create_descriptor_pool(BeginCall(pools), max_sets)
         IN  /\ pool' = {c.pool}
             /\ pools' = c.d
    /\ call' = [op |-> "init_pool"]
    /\ UNCHANGED <<ready_pools, full_pools, sets_per_pool, dropped, panicked>>
    /\ UNCHANGED <<frameVars, upload_fn, upload_pc, upload_steps, uploads,
                   objects, immediate_fence, immediate_command_buffer,
                   immediate_queue, dropVars, teardownVars, threadVars,
                   copyVars, textureVars, commandVars, window_event>>

\* allocate(layout): one set from the pool; panics without a pool, and in
\* Device::allocate_descriptor_sets on every answer but SUCCESS.
FixedAllocate ==
    /\ ~panicked /\ ~dropped
    /\ \A p \in LivePools(pools) : pools[p].used < MaxUsed
    /\ \E r \in VkResults :
         IF pool = None
         THEN /\ panicked' = TRUE
              /\ UNCHANGED pools
         ELSE LET t == allocate_descriptor_sets(BeginCall(pools),
                                                CHOOSE p \in pool : TRUE, r)
              IN  /\ pools' = t.d
                  /\ panicked' = t.panic
    /\ call' = [op |-> "allocate"]
    /\ UNCHANGED <<ready_pools, full_pools, sets_per_pool, dropped, pool>>
    /\ UNCHANGED <<frameVars, upload_fn, upload_pc, upload_steps, uploads,
                   objects, immediate_fence, immediate_command_buffer,
                   immediate_queue, dropVars, teardownVars, threadVars,
                   copyVars, textureVars, commandVars, window_event>>

\* clear_descriptors(): reset the pool; panics without a pool.
FixedClearDescriptors ==
    /\ ~panicked /\ ~dropped
    /\ IF pool = None
       THEN /\ panicked' = TRUE
            /\ UNCHANGED pools
       ELSE /\ pools' = ResetEach(BeginCall(pools), <<CHOOSE p \in pool : TRUE>>)
            /\ UNCHANGED panicked
    /\ call' = [op |-> "clear_descriptors"]
    /\ UNCHANGED <<ready_pools, full_pools, sets_per_pool, dropped, pool>>
    /\ UNCHANGED <<frameVars, upload_fn, upload_pc, upload_steps, uploads,
                   objects, immediate_fence, immediate_command_buffer,
                   immediate_queue, dropVars, teardownVars, threadVars,
                   copyVars, textureVars, commandVars, window_event>>

FixedDestroyPool ==
    /\ ~panicked /\ ~dropped
    /\ LET r == destroy_pool(pool, BeginCall(pools))
       IN  /\ pool' = r.pool
           /\ pools' = r.d
           /\ panicked' = r.panic
    /\ call' = [op |-> "destroy_pool"]
    /\ UNCHANGED <<ready_pools, full_pools, sets_per_pool, dropped>>
    /\ UNCHANGED <<frameVars, upload_fn, upload_pc, upload_steps, uploads,
                   objects, immediate_fence, immediate_command_buffer,
                   immediate_queue, dropVars, teardownVars, threadVars,
                   copyVars, textureVars, commandVars, window_event>>

\* impl Drop for DescriptorAllocator: drop calls destroy_pool.  A panic of
\* the drop while the thread is unwinding aborts the process.
FixedDrop ==
    /\ ~dropped
    /\ LET r == destroy_pool(pool, BeginCall(pools))
       IN  /\ pool' = r.pool
           /\ pools' = r.d
           /\ panicked' = (panicked \/ r.panic)
           /\ aborted' = (panicked /\ r.panic)
           /\ call' = [op |-> "drop", unwinding |-> panicked, panic |-> r.panic]
    /\ dropped' = TRUE
    /\ UNCHANGED <<ready_pools, full_pools, sets_per_pool>>
    /\ UNCHANGED <<frameVars, upload_fn, upload_pc, upload_steps, uploads,
                   objects, immediate_fence, immediate_command_buffer,
                   immediate_queue, drop_pc, allocator_mutex, teardownVars,
                   threadVars, copyVars, textureVars, commandVars, window_event>>

FixedNext ==
    \/ FixedInitPool
    \/ FixedAllocate
    \/ FixedClearDescriptors
    \/ FixedDestroyPool
    \/ FixedDrop

FixedSpec == UploadInit /\ [][FixedNext]_vars

\* ------------------------------------------------- dropping the renderer
\* The frame loop without resizes, ended by the drop of the VulkanRenderer:
\* by its owner between two draw() calls, or by the unwinding of a panic in
\* draw().  Drop::drop waits for the device to be idle; then the fields are
\* dropped in declaration order.
FieldOrder ==
    <<"allocator", "device", "frame_data", "draw_image", "descriptor_allocator",
      "gradient_pipeline", "test_meshes">>

\* The renderer has not been dropped.
Alive == renderer_fields = RendererFields /\ teardown_pc = <<>>

\* The counts after a value of the given type has been dropped: its device
\* objects are destroyed and its Arcs released; the last Arc<Mutex<Allocator>>
\* drops the Allocator, the last Arc<Device> destroys the device.
DropValue(type) ==
    LET arcs == CountOf(type, "Arc<Mutex<Allocator>>")
        last == arcs > 0 /\ allocator_strong = arcs
        Gone(t) == CountOf(type, t) + (IF last THEN CountOf("Allocator", t) ELSE 0)
    IN  [live |-> [t \in DeviceObjects |-> live[t] - Gone(t)],
         allocator_strong |-> allocator_strong - arcs,
         device_strong |-> device_strong - Gone("Arc<Device>"),
         device_handle |-> IF device_strong = Gone("Arc<Device>")
                           THEN "destroyed" ELSE device_handle]

\* impl Drop for VulkanRenderer: self.device.wait_idle() has returned.
RendererDrop ==
    /\ Alive
    /\ pc = "idle" \/ panicked
    /\ wait_idle(queue)
    /\ teardown_pc' = <<[op |-> "fields"]>>
    /\ UNCHANGED <<renderer_fields, live, device_strong, allocator_strong,
                   device_handle>>
    /\ UNCHANGED <<allocVars, panicked, frameVars, upload_fn, upload_pc,
                   upload_steps, uploads, objects, immediate_fence,
                   immediate_command_buffer, immediate_queue, dropVars,
                   threadVars, copyVars, textureVars, moreVars>>

\* The next field of the renderer is dropped.
RendererDropField ==
    /\ AtTeardown("fields")
    /\ LET n == CHOOSE i \in 1..Len(FieldOrder) :
                  /\ FieldOrder[i] \in renderer_fields
                  /\ \A j \in 1..(i - 1) : FieldOrder[j] \notin renderer_fields
           r == DropValue(TypeOf(FieldOrder[n]))
       IN  /\ renderer_fields' = renderer_fields \ {FieldOrder[n]}
           /\ live' = r.live
           /\ allocator_strong' = r.allocator_strong
           /\ device_strong' = r.device_strong
           /\ device_handle' = r.device_handle
           /\ teardown_pc' = IF n = Len(FieldOrder) THEN <<>> ELSE teardown_pc
    /\ UNCHANGED <<allocVars, panicked, frameVars, upload_fn, upload_pc,
                   upload_steps, uploads, objects, immediate_fence,
                   immediate_command_buffer, immediate_queue, dropVars,
                   threadVars, copyVars, textureVars, moreVars>>

ShutdownNext ==
    \/ Alive /\ DrawStart
    \/ DrawWaitFence
    \/ DrawWaitFenceTimeout
    \/ DrawResetFence
    \/ DrawClearPools
    \/ DrawAcquire
    \/ DrawResetCommandBuffer
    \/ DrawBeginCommandBuffer
    \/ DrawRecord
    \/ DrawEndCommandBuffer
    \/ DrawSubmit
    \/ DrawPresent
    \/ ImageAvailable
    \/ GpuColorOutput
    \/ GpuComplete
    \/ PresentExecute
    \/ RendererDrop
    \/ RendererDropField

ShutdownSpec == FrameInit /\ [][ShutdownNext]_vars

\* ------------------------------------------------- the application's events
\* The window events GameEngine::window_event distinguishes.
WindowEvents ==
    {"CloseRequested", "RedrawRequested", "Resized", "KeyboardInput(Escape)",
     "KeyboardInput(other)", "other"}

\* event_loop.exit() has been called.
Exited == window_event # NoCall /\ window_event.exit

\* The RedrawRequested arm has still to call renderer.draw().
RedrawPending ==
    /\ window_event # NoCall
    /\ window_event.event = "RedrawRequested"
    /\ ~window_event.consumed
    /\ window_event.frame = frame_index

\* GameEngine::window_event: egui sees the event first and may consume it;
\* CloseRequested and a released Escape key exit the event loop and wait for
\* the device; RedrawRequested draws a frame; Resized logs a warning.
WindowEvent ==
    /\ Alive /\ ~panicked /\ pc = "idle"
    /\ ~Exited /\ ~RedrawPending
    /\ \E event \in WindowEvents, size \in LogicalSizes, consumed \in BOOLEAN :
         LET exit == ~consumed /\ event \in {"CloseRequested", "KeyboardInput(Escape)"}
         IN  /\ exit => wait_idle(queue)
             /\ event = "RedrawRequested" /\ ~consumed => frame_index < MaxFrames
             /\ window_event' = [event |-> event, size |-> size,
                                 consumed |-> consumed, exit |-> exit,
                                 frame |-> frame_index]
    /\ UNCHANGED <<allocVars, panicked, frameVars, upload_fn, upload_pc,
                   upload_steps, uploads, objects, immediate_fence,
                   immediate_command_buffer, immediate_queue, dropVars,
                   teardownVars, threadVars, copyVars, textureVars,
                   commandVars, pool>>

AppNext ==
    \/ WindowEvent
    \/ RedrawPending /\ DrawStart
    \/ DrawWaitFence
    \/ DrawWaitFenceTimeout
    \/ DrawResetFence
    \/ DrawClearPools
    \/ DrawAcquire
    \/ DrawResetCommandBuffer
    \/ DrawBeginCommandBuffer
    \/ DrawRecord
    \/ DrawEndCommandBuffer
    \/ DrawSubmit
    \/ DrawPresent
    \/ ImageAvailable
    \/ GpuColorOutput
    \/ GpuComplete
    \/ PresentExecute
    \/ (Exited \/ panicked) /\ RendererDrop
    \/ RendererDropField

AppSpec == FrameInit /\ [][AppNext]_vars

\* ------------------------------------------------------------- properties
Growth == {call.growth[i] : i \in 1..Len(call.growth)}
PoolCount(a) == Len(a.ready_pools) + Len(a.full_pools)

\* C1: draw() neither resets nor records the command buffer of slot
\* frame_index mod N while a submission of that slot is still outstanding on
\* the GPU (its in-flight fence unsignaled), and no two outstanding
\* submissions (frame f and frame f + N) use the same slot.
C1_SlotIdleWhileRecorded ==
    /\ pc \in {"reset_command_buffer", "begin_command_buffer", "record",
               "end_command_buffer", "submit"}
         => get_current_frame(frame_index) \notin Outstanding
    /\ \A i, j \in 1..Len(queue) : i # j => queue[i].slot # queue[j].slot

\* A frame of the second round of the ring is recorded while the previous
\* frame (the other slot) is still outstanding on the GPU.
C1_Witness ==
    /\ pc = "end_command_buffer"
    /\ frame_index >= MAX_FRAMES_IN_FLIGHT
    /\ queue # <<>>

C3_TwoAttemptsThenFatal ==
    (/\ call.op = "allocate"
     /\ call.driver[1] \in PoolExhaustion
     /\ call.driver[2] \in PoolExhaustion)
        => (panicked /\ Len(call.tried) = 2)

\* C4: when the first attempt of allocate fails with pool exhaustion and the
\* driver serves a second attempt, the exhausted pool ends in full_pools, a
\* second attempt is made on another pool, that pool ends in ready_pools and
\* the returned set comes from it.
C4_RetryOnOtherPool ==
    (/\ call.op = "allocate"
     /\ call.results[1] \in PoolExhaustion
     /\ call.driver[2] = "SUCCESS"
     /\ \A p \in LivePools(pools) \ {call.tried[1]} :
            pools[p].used < pools[p].max_sets \/ p \in call.set)
        => (/\ ~panicked
            /\ Len(call.tried) = 2
            /\ call.tried[2] # call.tried[1]
            /\ Occurrences(full_pools, call.tried[1]) = 1
            /\ Occurrences(ready_pools, call.tried[2]) = 1
            /\ call.set = {call.tried[2]})

\* C5: when the first attempt of allocate fails with an error that is not
\* pool exhaustion, the call panics after that one attempt: no second
\* attempt, no pool created after the failure, nothing moved to full_pools.
C5_OtherErrorIsFatal ==
    (/\ call.op = "allocate"
     /\ call.results[1] \notin PoolExhaustion \cup {"SUCCESS"})
        => (/\ panicked
            /\ Len(call.tried) = 1
            /\ call.created \subseteq {call.tried[1]}
            /\ full_pools = call.pre.full_pools)

\* The driver answered ERROR_OUT_OF_HOST_MEMORY to the first attempt, made on
\* a pool popped from ready_pools.
C5_Witness ==
    /\ call.op = "allocate"
    /\ call.results[1] = "ERROR_OUT_OF_HOST_MEMORY"
    /\ call.pre.ready_pools # <<>>

\* C6: after every growth step (init_pool, or pool creation in get_pool) the
\* sets-per-pool target is at most 4092.
C6_TargetCapped ==
    \A g \in Growth : g.new <= SetsPerPoolCap

\* C7: no growth step lowers the sets-per-pool target.
C7_TargetNonDecreasing ==
    \A g \in Growth : g.new >= g.old

\* C8 (as claimed): a growth step the cap does not limit sets the target to
\* 1.5 times the previous target rounded to the nearest integer.
C8_GrowthRounded ==
    \A g \in Growth :
        (g.site = "init_pool" \/ (3 * g.old + 1) \div 2 <= SetsPerPoolCap)
            => g.new = (3 * g.old + 1) \div 2

\* C8 (amended): a growth step the cap does not limit sets the target to 1.5
\* times the previous target truncated toward zero.
C8_GrowthTruncated ==
    \A g \in Growth :
        (g.site = "init_pool" \/ (3 * g.old) \div 2 <= SetsPerPoolCap)
            => g.new = (3 * g.old) \div 2

\* Growth steps from an odd target, one in init_pool and one in get_pool.
C8_Witness ==
    \E g \in Growth : g.old % 2 = 1 /\ g.new < SetsPerPoolCap

\* C9: an init_pool, allocate or clear_pools call that returns leaves at
\* least as many pools in ready_pools and full_pools together as it found.
C9_PoolCountNotLowered ==
    (call.op \in {"init_pool", "allocate", "clear_pools"} /\ ~panicked)
        => PoolCount(Self) >= PoolCount(call.pre)

\* clear_pools returned with two or more pools, and destroy_pools is the call
\* that lowers the count.
C9_Witness ==
    /\ call.op = "clear_pools"
    /\ PoolCount(Self) >= 2

\* C10: after clear_pools, full_pools is empty, ready_pools holds exactly the
\* pools ready_pools and full_pools held before, each of them was reset
\* exactly once and has no set allocated, and the target is unchanged.
C10_ClearPoolsEffect ==
    call.op = "clear_pools" =>
        /\ full_pools = <<>>
        /\ Range(ready_pools) =
               Range(call.pre.ready_pools) \cup Range(call.pre.full_pools)
        /\ Len(ready_pools) = PoolCount(call.pre)
        /\ \A p \in Range(ready_pools) :
               pools[p].resets = 1 /\ pools[p].used = 0
        /\ sets_per_pool = call.pre.sets_per_pool

\* clear_pools ran on two or more pools, some with sets allocated.
C10_Witness ==
    /\ call.op = "clear_pools"
    /\ call.pre_used
    /\ Len(ready_pools) >= 2

\* C11: destroy_pools destroys every pool of ready_pools and full_pools
\* exactly once and leaves both lists empty, so that no pool is ever destroyed
\* a second time, neither by a later destroy_pools nor by the drop of the
\* allocator.
C11_DestroyedExactlyOnce ==
    /\ \A p \in PoolIds : pools[p].destroys <= 1
    /\ call.op \in {"destroy_pools", "drop"} =>
        /\ ready_pools = <<>>
        /\ full_pools = <<>>
        /\ \A p \in Range(call.pre.ready_pools) \cup Range(call.pre.full_pools) :
               pools[p].state = "destroyed" /\ pools[p].destroys = 1

\* The allocator is dropped after a destroy_pools call that destroyed two or
\* more pools, and the drop found both lists empty.
C11_Witness ==
    /\ call.op = "drop"
    /\ PoolCount(call.pre) = 0
    /\ Cardinality({p \in PoolIds : pools[p].destroys = 1}) >= 2

\* C12: with new(.., 1000), init_pool() and a driver whose pools serve
\* exactly max_sets sets, an allocate call whose first attempt succeeds is
\* served by the initial pool without creating a pool, the first attempt
\* fails only once the initial pool has served 1000 sets, and that call (the
\* 1001st) returns after one retry cycle: the initial pool is in full_pools
\* and the set comes from the one new, larger pool it created.
C12_ThousandThenOneRetry ==
    call.op = "allocate" =>
        IF call.results[1] = "SUCCESS"
        THEN /\ ~panicked
             /\ call.tried = call.pre.ready_pools
             /\ call.set = {call.tried[1]}
             /\ call.created = {}
             /\ pools[call.tried[1]].used <= FRAME_MAX_SETS
        ELSE /\ pools[call.tried[1]].used = FRAME_MAX_SETS
             /\ ~panicked
             /\ Len(call.tried) = 2
             /\ full_pools = <<call.tried[1]>>
             /\ call.created = {call.tried[2]}
             /\ call.set = {call.tried[2]}
             /\ pools[call.tried[2]].max_sets > FRAME_MAX_SETS

\* The steps of the trace of draw() that are op, by position.
StepsAt(op) == {i \in 1..Len(steps) : steps[i][1] = op}
IsPrefix(s, t) == Len(s) <= Len(t) /\ s = SubSeq(t, 1, Len(s))

\* The steps the draw() call of frame fi has to take, in order, each on slot
\* fi mod N; the two swapchain steps lead when the call took a pending size.
C13_Expected(fi, rebuilt) ==
    LET k == fi % MAX_FRAMES_IN_FLIGHT
    IN  (IF rebuilt THEN << <<"wait_idle", k>>, <<"recreate", k>> >> ELSE <<>>)
        \o << <<"wait_for_fence", k>>, <<"reset_fence", k>>, <<"clear_pools", k>>,
              <<"acquire_next_image", k>>, <<"reset_command_buffer", k>>,
              <<"begin_command_buffer", k>>, <<"allocate", k>>, <<"allocate", k>>,
              <<"record", k>>, <<"end_command_buffer", k>>, <<"submit", k>>,
              <<"present", k>>, <<"frame_index += 1", k>> >>

\* C13: a draw() call that returns has taken, for slot frame_index mod N and
\* in this order, the steps wait fence, reset fence, clear pools, acquire,
\* reset, begin, record (with its two allocations), end, submit fenced by the
\* slot's fence, present, increment; and a call under way has taken a prefix
\* of them.
C13_StepsInOrder ==
    /\ (pc = "idle" /\ steps # <<>>) =>
           steps = C13_Expected(frame_index - 1, logical_size # None)
    /\ pc # "idle" =>
           IsPrefix(steps, C13_Expected(frame_index, logical_size # None))

\* The third draw() call has returned: the second use of slot 0.
C13_Witness ==
    /\ pc = "idle"
    /\ frame_index = MAX_FRAMES_IN_FLIGHT + 1
    /\ Len(steps) >= 13

\* C14: a submission that has reached color-attachment output writes an
\* image the presentation engine has released to it (the acquire has
\* signaled), and an image on display is not the target of a submission the
\* GPU has not completed.
C14_SemaphoreOrdering ==
    \A n \in 1..Len(queue) : \A i \in queue[n].image :
        /\ queue[n].phase = "color_output" =>
             /\ images[i].state # "acquiring"
             /\ images[i].semaphore = None
        /\ images[i].state # "presented"

\* A submission is rendering to its image while the present request of that
\* image is already queued behind it.
C14_Witness ==
    /\ queue # <<>>
    /\ Head(queue).phase = "color_output"
    /\ present_queue # <<>>
    /\ Head(queue).image = {Head(present_queue).image}
    /\ Head(queue).frame >= MAX_FRAMES_IN_FLIGHT

\* C15: while draw() records frame f, no frame with index f - N or lower is
\* still on the GPU: at most the N - 1 frames before f are outstanding.
C15_BoundedFramesInFlight ==
    pc \in {"begin_command_buffer", "record", "end_command_buffer"} =>
        /\ \A n \in 1..Len(queue) :
               queue[n].frame > frame_index - MAX_FRAMES_IN_FLIGHT
        /\ Len(queue) <= MAX_FRAMES_IN_FLIGHT - 1

\* Frame f >= N is being recorded while frame f - 1 is still on the GPU.
C15_Witness ==
    /\ pc = "record"
    /\ frame_index >= MAX_FRAMES_IN_FLIGHT
    /\ queue # <<>>
    /\ Head(queue).frame = frame_index - 1

\* C16: in a draw() call the slot's pools are cleared once, after the fence
\* wait has returned and before the first allocation; and the descriptor
\* sets a command buffer refers to, while it is recorded or on the GPU, have
\* not been returned to their pool by a clear.
C16_ClearOncePerFrame ==
    /\ Cardinality(StepsAt("clear_pools")) <= 1
    /\ (pc = "idle" /\ steps # <<>>) => Cardinality(StepsAt("clear_pools")) = 1
    /\ \A i \in StepsAt("clear_pools") : \E j \in StepsAt("wait_for_fence") : j < i
    /\ \A i \in StepsAt("allocate") : \E j \in StepsAt("clear_pools") : j < i
    /\ \A n \in 1..Len(queue) : queue[n].sets \subseteq live_sets
    /\ \A k \in Slots :
           command_buffer[k].state \in {"recording", "executable", "pending"}
               => command_buffer[k].sets \subseteq live_sets

\* The second use of a slot: its pools have been cleared and sets allocated
\* again, while the other slot's submission, with its sets, is on the GPU.
C16_Witness ==
    /\ pc = "end_command_buffer"
    /\ frame_index >= MAX_FRAMES_IN_FLIGHT
    /\ queue # <<>>
    /\ Head(queue).sets # {}
    /\ command_buffer[get_current_frame(frame_index)].sets # {}

\* C17: resize_swapchain only records the pending size; the swapchain is
\* rebuilt only by draw(), as its first steps, when a size was pending, after
\* the device idle wait has returned with nothing left on the queue; draw()
\* leaves no size pending, and a draw() that finds none does not rebuild.
C17_ResizeDeferredToDraw ==
    [][/\ (resize_swapchain' # resize_swapchain /\ resize_swapchain' # None) =>
              UNCHANGED <<swapchain_epoch, swapchain_extent, images, queue,
                          present_queue, in_flight_fence, command_buffer,
                          image_available_semaphore,
                          result_presentable_semaphore, pools,
                          frame_descriptors, frame_index, pc>>
       /\ (swapchain_epoch' # swapchain_epoch \/ swapchain_extent' # swapchain_extent) =>
              /\ pc = "recreate"
              /\ steps = <<Step("wait_idle")>>
              /\ queue = <<>>
              /\ logical_size # None
              /\ swapchain_extent' = logical_size
              /\ resize_swapchain' = None
       /\ (pc = "idle" /\ pc' # "idle") =>
              /\ resize_swapchain' = None
              /\ (pc' = "wait_idle") <=> (resize_swapchain # None)
      ]_vars

\* A draw() call after the one that rebuilt the swapchain has returned
\* without rebuilding it again.
C17_Witness ==
    /\ swapchain_epoch = 1
    /\ pc = "idle"
    /\ steps # <<>>
    /\ StepsAt("recreate") = {}

\* The statements of immediate_submit the upload call has executed.
ImmediateDone ==
    LET done == SelectSeq(upload_steps, LAMBDA st : st.obj = "immediate")
    IN  [i \in 1..Len(done) |-> done[i].op]
\* immediate_submit has been entered and the call is no longer inside it.
ImmediateReturned ==
    /\ ImmediateDone # <<>>
    /\ ~panicked
    /\ upload_pc = <<>> \/ Head(upload_pc).obj # "immediate"

\* C18: immediate_submit resets the fence, resets the command buffer, begins
\* it, runs the closure, ends it, submits it and waits on the fence, in that
\* order; the wait never gives up, and the call has returned only with the
\* fence signaled and the submission retired by the GPU.
C18_ImmediateSubmitOrder ==
    /\ IsPrefix(ImmediateDone,
                <<"reset_fence", "reset_command_buffer", "begin_command_buffer",
                  "commands", "end_command_buffer", "submit", "wait_for_fence">>)
    /\ ~(panicked /\ AtOp("wait_for_fence"))
    /\ ImmediateReturned =>
           /\ Len(ImmediateDone) = 7
           /\ immediate_fence = "signaled"
           /\ immediate_queue = <<>>

\* The second upload call has returned from immediate_submit: its fence had
\* been left signaled by the first one.
C18_Witness ==
    /\ uploads >= 2
    /\ ImmediateReturned

C20_BuiltInOrder ==
    \A o \in ObjectNames :
        LET order ==
              IF o = "image"
              THEN <<"create_image", "get_image_memory_requirements",
                     "allocate_image", "create_image_view">>
              ELSE <<"create_buffer", "get_buffer_memory_requirements",
                     "allocate_buffer">>
        IN  /\ IsPrefix(objects[o].done, order)
            /\ objects[o].wrapper => objects[o].done = order
            /\ (objects[o].done # <<>> /\ ~objects[o].wrapper) =>
                   \/ panicked
                   \/ (upload_pc # <<>> /\ Head(upload_pc).obj = o)

\* new_texture has built its staging buffer and its image.
C20_Witness ==
    /\ objects["image"].wrapper
    /\ objects["staging_buffer"].wrapper
    /\ ~panicked

\* The call that undoes a constructor call; the memory-requirement queries
\* create nothing.
Inverse(op) ==
    CASE op = "create_image" -> "destroy_image"
      [] op = "allocate_image" -> "free_allocation"
      [] op = "create_image_view" -> "destroy_image_view"
      [] op = "create_buffer" -> "destroy_buffer"
      [] op = "allocate_buffer" -> "free_allocation"
      [] OTHER -> "none"
Reverse(s) == [i \in 1..Len(s) |-> s[Len(s) + 1 - i]]

\* C21: the calls a drop makes on an object are the inverses of the calls
\* that built it, in reverse order: destroy image view, free allocation,
\* destroy image for an AllocatedImage; free allocation, destroy buffer for
\* an AllocatedBuffer.
C21_DropReversesConstruction ==
    \A o \in ObjectNames :
        LET made == SelectSeq(objects[o].done, LAMBDA op : Inverse(op) # "none")
            expected == Reverse([i \in 1..Len(made) |-> Inverse(made[i])])
        IN  /\ IsPrefix(objects[o].undone, expected)
            /\ objects[o].destroyed =>
                   /\ objects[o].undone = expected
                   /\ objects[o].undone =
                        IF o = "image"
                        THEN <<"destroy_image_view", "free_allocation",
                               "destroy_image">>
                        ELSE <<"free_allocation", "destroy_buffer">>

\* new_texture has returned; its staging buffer and, later, the image it
\* returned have been dropped.
C21_Witness ==
    /\ ~panicked
    /\ objects["image"].destroyed
    /\ objects["staging_buffer"].destroyed

C23_DeviceOutlivesResources ==
    /\ device_handle = "destroyed" =>
           /\ \A t \in DeviceObjects : live[t] = 0
           /\ allocator_strong = 0
    /\ live["gpu_allocator::Allocator"] = 0 =>
           /\ live["AllocatedImage"] = 0
           /\ live["AllocatedBuffer"] = 0
    /\ device_strong = 0 <=> device_handle = "destroyed"

\* Every field of the renderer has been dropped and the last Arc<Device>
\* with them: the device has been destroyed.
C23_Witness ==
    /\ device_handle = "destroyed"
    /\ renderer_fields = {}
    /\ allocator_strong = 0

\* The threads inside an allocate_image / allocate_buffer / free_allocation
\* call, and those blocked in (or on their way into) the fence wait of
\* immediate_submit.
InAllocator == {t \in Threads : ThreadAt(t, LockedCalls)}
InImmediate ==
    {t \in Threads :
        thread_pc[t] # <<>> /\ Head(thread_pc[t]).obj = "immediate"}

\* C24: at most one thread is inside a call on the shared Allocator; a
\* thread inside one holds the lock, which it took just before the call, and
\* a thread holds the lock only from then until the call has returned.
C24_AllocatorCallsExclusive ==
    /\ Cardinality(InAllocator) <= 1
    /\ \A t \in InAllocator : allocator_mutex.holder = {t}
    /\ \A t \in Threads :
           t \in allocator_mutex.holder =>
               ThreadAt(t, LockedCalls \cup {"unlock"})

\* One thread is inside a call on the Allocator while the other waits at
\* lock() for it.
C24_Witness ==
    \E t, u \in Threads :
        /\ t # u
        /\ t \in InAllocator
        /\ ThreadAt(u, {"lock"})

\* C25: a thread in immediate_submit, its fence wait included, does not hold
\* the Allocator's lock, so lock() on another thread never waits for a
\* fence.
C25_NoLockAcrossFenceWait ==
    \A t \in InImmediate : t \notin allocator_mutex.holder

\* One thread is blocked in the fence wait, its submission still on the GPU,
\* while the other is inside a call on the Allocator.
C25_Witness ==
    \E t, u \in Threads :
        /\ t # u
        /\ ThreadAt(t, {"wait_for_fence"})
        /\ thread_pending[t]
        /\ u \in InAllocator

\* C26: copy_from_slice on a buffer that was not created CpuToGpu panics and
\* leaves every byte as it was; a call that returns was made on a
\* CPU-accessible buffer and has put the bytes of the slice at exactly the
\* requested offset, the other bytes unchanged.
C26_CopyNeedsCpuAccess ==
    copy_call.op = "copy_from_slice" =>
        LET pre == copy_call.pre
            bytes == BytesOf(copy_call.data, copy_call.size_of)
        IN  /\ pre.cpu_accesible <=> pre.location = "CpuToGpu"
            /\ ~pre.cpu_accesible =>
                   /\ copy_call.outcome = "panic"
                   /\ buffer.memory = pre.memory
            /\ copy_call.outcome = "returned" =>
                   /\ pre.cpu_accesible
                   /\ copy_call.offset + Len(bytes) <= Len(buffer.memory)
                   /\ \A i \in 1..Len(buffer.memory) :
                          buffer.memory[i] =
                            IF /\ i > copy_call.offset
                               /\ i <= copy_call.offset + Len(bytes)
                            THEN bytes[i - copy_call.offset]
                            ELSE pre.memory[i]

\* copy_from_slice has panicked on a host-visible GpuToCpu buffer.
C26_Witness ==
    /\ copy_call.op = "copy_from_slice"
    /\ copy_call.pre.location = "GpuToCpu"
    /\ copy_call.outcome = "panic"
    /\ panicked

C28_MipLevelCount ==
    texture_call.op = "allocate_texture" =>
        /\ texture_call.mip_levels =
             IF texture_call.mip_mapped
             THEN FloorLog2(u32_max(texture_call.width, texture_call.height)) + 1
             ELSE 1
        /\ (/\ texture_call.width = 512
            /\ texture_call.height = 256
            /\ texture_call.mip_mapped) => texture_call.mip_levels = 10

\* Byte k (0 the lowest) of a 32-bit word.
ByteOf(word, k) ==
    LET RECURSIVE Value(_)
        Value(n) == IF n = 0 THEN 0 ELSE word[8 * k + n] * Pow2(n - 1) + Value(n - 1)
    IN  Value(8)
\* v is c clamped to [0, 1] times 255, rounded to the nearest integer, a half
\* rounding up (numerators over ChannelDenominator).
IsRoundedChannel(v, c) ==
    LET clamped == IF c < 0 THEN 0
                   ELSE IF c > ChannelDenominator THEN ChannelDenominator ELSE c
        twice == 2 * (v * ChannelDenominator - 255 * clamped)
    IN  /\ v \in 0..255
        /\ -ChannelDenominator < twice
        /\ twice <= ChannelDenominator

\* C29: pack_unorm4x8([r, g, b, a]) is R | G<<8 | B<<16 | A<<24, each byte
\* being round(clamp(c, 0, 1) * 255) of its own channel only; [1,1,1,1] gives
\* 0xFFFFFFFF, [0,0,0,1] gives 0xFF000000 and [1,0,1,1] gives 0xFFFF00FF.
C29_PackUnorm4x8 ==
    pack_call.op = "pack_unorm4x8" =>
        /\ \A k \in 0..3 :
             IsRoundedChannel(ByteOf(pack_call.result, k), pack_call.vec[k + 1])
        /\ pack_call.vec = <<256, 256, 256, 256>> =>
             pack_call.result = [i \in 1..32 |-> 1]
        /\ pack_call.vec = <<0, 0, 0, 256>> =>
             pack_call.result = [i \in 1..32 |-> IF i > 24 THEN 1 ELSE 0]
        /\ pack_call.vec = <<256, 0, 256, 256>> =>
             pack_call.result = [i \in 1..32 |-> IF i \in 9..16 THEN 0 ELSE 1]

\* Magenta has been packed: red, blue and alpha bytes full, green empty.
C29_Witness ==
    /\ pack_call.op = "pack_unorm4x8"
    /\ pack_call.vec = <<256, 0, 256, 256>>
    /\ ByteOf(pack_call.result, 1) = 0
    /\ ByteOf(pack_call.result, 3) = 255

\* C30: in the finished 16x16 placeholder texture the texel at row-major
\* index i*16 + j is black (0xFF000000) if and only if (i + j) mod 2 = 0, and
\* magenta (0xFFFF00FF) otherwise, for all i, j in 0..15.
C30_Checkerboard ==
    (checkerboard # <<>> /\ loop_i = SIZE) =>
        /\ SIZE = 16
        /\ Len(checkerboard) = 16 * 16
        /\ \A i \in 0..15, j \in 0..15 :
             LET texel == checkerboard[i * 16 + j + 1]
             IN  /\ texel = [b \in 1..32 |-> IF b > 24 THEN 1 ELSE 0]
                      <=> (i + j) % 2 = 0
                 /\ (i + j) % 2 # 0 =>
                      texel = [b \in 1..32 |-> IF b \in 9..16 THEN 0 ELSE 1]

\* The loop has run to its end: the first row starts black, magenta and the
\* second row starts magenta.
C30_Witness ==
    /\ checkerboard # <<>>
    /\ loop_i = SIZE
    /\ checkerboard[1] = black
    /\ checkerboard[2] = magenta
    /\ checkerboard[SIZE + 1] = magenta
    /\ checkerboard[SIZE * SIZE] = black

\* C31: an allocate call that finds ready_pools non-empty and whose first
\* attempt succeeds creates no pool, leaves full_pools and the sets-per-pool
\* target as they were, and leaves ready_pools with the same pools, the pool
\* it used on top: the next allocate takes that pool first.
C31_SuccessKeepsPools ==
    (/\ call.op = "allocate"
     /\ call.pre.ready_pools # <<>>
     /\ call.results = <<"SUCCESS">>) =>
        /\ call.created = {}
        /\ call.growth = <<>>
        /\ full_pools = call.pre.full_pools
        /\ sets_per_pool = call.pre.sets_per_pool
        /\ Len(ready_pools) = Len(call.pre.ready_pools)
        /\ \A p \in PoolIds :
             Occurrences(ready_pools, p) = Occurrences(call.pre.ready_pools, p)
        /\ Last(ready_pools) = call.tried[1]
        /\ call.set = {call.tried[1]}
        /\ get_pool(Self, pools).pool = call.tried[1]

\* Such a call has been made with two pools ready.
C31_Witness ==
    /\ call.op = "allocate"
    /\ Len(call.pre.ready_pools) = 2
    /\ call.results = <<"SUCCESS">>
    /\ ~panicked

\* The allocator FrameData::new builds for each slot.
C32_Startup ==
    NewFrames(0, [k \in Slots |-> new(FRAME_MAX_SETS)], [p \in PoolIds |-> NullPool])

\* C32: over the draw() calls each slot's allocator holds no pool but the one
\* created at startup: no draw() creates a pool or moves one to full_pools,
\* and while the program runs the slot's ready_pools is that one pool.
C32_OnePoolPerSlot ==
    /\ Cardinality({p \in PoolIds : pools[p].state # "null"}) = MAX_FRAMES_IN_FLIGHT
    /\ \A k \in Slots :
         /\ frame_descriptors[k].full_pools = <<>>
         /\ Len(frame_descriptors[k].ready_pools) <= 1
         /\ Range(frame_descriptors[k].ready_pools)
              \subseteq Range(C32_Startup.fd[k].ready_pools)
         /\ ~panicked =>
              frame_descriptors[k].ready_pools = C32_Startup.fd[k].ready_pools

\* Every slot has been drawn twice, with sets allocated, and the program
\* runs on.
C32_Witness ==
    /\ frame_index = 2 * MAX_FRAMES_IN_FLIGHT
    /\ pc = "idle"
    /\ ~panicked
    /\ live_sets # {}
    /\ \A k \in Slots : Len(frame_descriptors[k].ready_pools) = 1

\* C33: every transition draw() records names as old layout UNDEFINED or the
\* layout the commands before it left the image in; the blit is recorded
\* with the draw image in TRANSFER_SRC_OPTIMAL and the acquired image in
\* TRANSFER_DST_OPTIMAL; the acquired image is in PRESENT_SRC_KHR when the
\* command buffer ends.
C33_LayoutsChain ==
    \A n \in 1..Len(recorded) :
        LET c == recorded[n]
        IN  /\ c.op = "transition_image_layout" =>
                 c.old \in {"UNDEFINED", c.found}
            /\ c.op = "copy_image_to_image" =>
                 /\ \E u \in c.uses : /\ u.image = <<"draw_image", 0>>
                                      /\ u.found = "TRANSFER_SRC_OPTIMAL"
                 /\ \E u \in c.uses :
                      /\ u.image = <<"presentation_image", recorded[1].presentation_image>>
                      /\ u.found = "TRANSFER_DST_OPTIMAL"
            /\ c.op = "end_command_buffer" =>
                 image_layout[<<"presentation_image", recorded[1].presentation_image>>]
                    = "PRESENT_SRC_KHR"

\* A command buffer has ended for an image that an earlier draw() left in
\* PRESENT_SRC_KHR, after another image was used in between.
C33_Witness ==
    /\ recorded # <<>>
    /\ Last(recorded).op = "end_command_buffer"
    /\ \A i \in ImageIds : image_layout[<<"presentation_image", i>>] = "PRESENT_SRC_KHR"
    /\ \E n \in 1..Len(recorded) :
         /\ recorded[n].op = "transition_image_layout"
         /\ recorded[n].found = "PRESENT_SRC_KHR"
         /\ recorded[n].old = "UNDEFINED"

\* C34 as stated: with the GPU and the swapchain making progress, every
\* draw() call eventually returns.
C34_EveryDrawReturns == (pc # "idle") ~> (pc = "idle")

\* C34: with the GPU and the swapchain making progress, no draw() call
\* blocks forever: it returns, or it terminates the process at one of its
\* fatal exits.  The fence wait returns because the fence is created
\* signaled and every reset is followed by a submission that signals it.
C34_ReturnsOrTerminates == (pc # "idle") ~> (pc = "idle" \/ panicked)

\* The draw() call that uses slot 0 for the second time has returned.
C34_Witness ==
    /\ pc = "idle"
    /\ frame_index > MAX_FRAMES_IN_FLIGHT
    /\ steps # <<>>
    /\ ~panicked

\* C35: when draw() passes the slot's image-available semaphore to
\* acquire_next_image, the semaphore has no pending operation: it is
\* unsignaled, no acquire is still to signal it, and every submission that
\* waits on it has completed.
C35_AcquireSemaphoreIdle ==
    (pc = "acquire" /\ ~panicked) =>
        LET k == get_current_frame(frame_index)
        IN  /\ image_available_semaphore[k] = "unsignaled"
            /\ \A i \in ImageIds : k \notin images[i].semaphore
            /\ \A n \in 1..Len(queue) : k \notin queue[n].wait

\* The slot is used for the second time, its semaphore having been signaled
\* and waited on in the first, while the other slot's frame is on the GPU.
C35_Witness ==
    /\ pc = "acquire"
    /\ ~panicked
    /\ frame_index >= MAX_FRAMES_IN_FLIGHT
    /\ queue # <<>>
    /\ image_available_semaphore[get_current_frame(frame_index)] = "unsignaled"

\* C36: when draw() submits the command buffer that will signal the slot's
\* render-complete semaphore, the present request queued in the slot's
\* previous use has consumed the previous signal: no present request is
\* waiting on the semaphore and the semaphore is unsignaled.
C36_PresentConsumedBeforeResignal ==
    (pc = "submit" /\ ~panicked) =>
        LET k == get_current_frame(frame_index)
        IN  /\ \A n \in 1..Len(present_queue) : k \notin present_queue[n].wait
            /\ result_presentable_semaphore[k] = "unsignaled"

\* C37: once the allocator has been dropped, every pool it created has been
\* destroyed exactly once, also when the drop is part of the unwinding of a
\* panic in allocate.
C37_NoPoolLeaked ==
    dropped =>
        \A p \in PoolIds : pools[p].state # "null" =>
            /\ pools[p].state = "destroyed"
            /\ pools[p].destroys = 1

\* C38: the drop of a DescriptorAllocator whose calls have not panicked
\* completes without a panic, and every pool init_pool created has then been
\* destroyed exactly once, after any number of init_pool calls.
C38_FixedDropClean ==
    (call.op = "drop" /\ ~call.unwinding) =>
        /\ ~call.panic
        /\ ~panicked
        /\ \A p \in PoolIds : pools[p].state # "null" =>
             /\ pools[p].state = "destroyed"
             /\ pools[p].destroys = 1

C40_ResizedRequestsResize ==
    (/\ window_event # NoCall
     /\ window_event.event = "Resized"
     /\ ~window_event.consumed)
        => resize_swapchain = {window_event.size}

====
